---- MODULE Spec2Model ----
\* Routing table with hot reload (gateway-core router/handler, surreal-config
\* watcher/schema), listener supervisor (protocol-adapters supervisor) and
\* rate limiter (naseej-security rate_limit).  Strings are sequences of
\* one-character strings so that starts_with / strip_suffix /
\* trim_end_matches / len are computed as the code computes them.
EXTENDS Integers, Sequences, FiniteSets, TLC

\* ---------------------------------------------------------------- bounds
MaxWrites == 2
MaxTableRoutes == 2
MaxOps == 3
MaxTime == 2
MaxChecks == 3
MaxBurstChecks == 10
MaxClock == 3
MaxCustom == 2
MaxLevels == 3
MaxFailures == 2
MaxConcChecks == 4
MaxEvents == 3

MaxMeters == 2
MaxQueued == 1

MaxIncoming == 3

MaxOutbound == 1

\* --------------------------------------------------------------- strings
S_slash == <<"/">>
S_a == <<"/", "a">>
S_aS == <<"/", "a", "/">>
S_aSS == <<"/", "a", "/", "/">>
S_aW == <<"/", "a", "/", "*">>
S_ab == <<"/", "a", "b">>
S_aSb == <<"/", "a", "/", "b">>
S_aSSb == <<"/", "a", "/", "/", "b">>
S_aSbSb == <<"/", "a", "/", "b", "/", "b">>
S_W == <<"/", "*">>
S_b == <<"/", "b">>
S_noslash == <<"a">>
S_api == <<"/", "a", "p", "i">>
S_apiW == S_api \o <<"/", "*">>
S_apiUsers == S_api \o <<"/", "u", "s", "e", "r", "s">>
S_apiOrders1 == S_api \o <<"/", "o", "r", "d", "e", "r", "s", "/", "1">>
S_v2 == <<"/", "v", "2">>
S_v2S == <<"/", "v", "2", "/">>
S_v2Sx == <<"/", "v", "2", "/", "x">>
S_v20 == <<"/", "v", "2", "0">>

S_http == <<"h", "t", "t", "p", ":", "/", "/">>
S_https == <<"h", "t", "t", "p", "s", ":", "/", "/">>
UpU == S_http \o <<"u">>
UpV == S_https \o <<"v">>
UpFtp == <<"f", "t", "p", ":", "/", "/", "w">>

M_GET == <<"G", "E", "T">>
M_get == <<"g", "e", "t">>
M_POST == <<"P", "O", "S", "T">>
M_PUT == <<"P", "U", "T">>

Id1 == <<"1">>
Id2 == <<"2">>
Id3 == <<"3">>

\* str::starts_with
StartsWith(s, p) ==
    /\ Len(p) <= Len(s)
    /\ SubSeq(s, 1, Len(p)) = p

\* str::ends_with
EndsWith(s, p) ==
    /\ Len(p) <= Len(s)
    /\ SubSeq(s, Len(s) - Len(p) + 1, Len(s)) = p

\* str::trim_end_matches(c): removes every trailing occurrence of c
RECURSIVE TrimEndMatches(_, _)
TrimEndMatches(s, c) ==
    IF Len(s) > 0 /\ s[Len(s)] = c
    THEN TrimEndMatches(SubSeq(s, 1, Len(s) - 1), c)
    ELSE s

\* u8::to_ascii_lowercase on the letters the model uses
ToAsciiLower(ch) ==
    CASE ch = "G" -> "g"
      [] ch = "E" -> "e"
      [] ch = "T" -> "t"
      [] ch = "P" -> "p"
      [] ch = "O" -> "o"
      [] ch = "S" -> "s"
      [] ch = "U" -> "u"
      [] OTHER -> ch

\* str::eq_ignore_ascii_case
EqIgnoreAsciiCase(a, b) ==
    /\ Len(a) = Len(b)
    /\ \A i \in 1..Len(a) : ToAsciiLower(a[i]) = ToAsciiLower(b[i])

\* ----------------------------------------------------------------- routes
NoRoute == [none |-> TRUE]

MkRoute(id, path, upstream, active, methods) ==
    [id |-> id, path |-> path, upstream |-> upstream,
     active |-> active, methods |-> methods]

\* faulty variant: the method names are compared byte for byte
AllowsMethodExact(route, method) ==
    \/ route.methods = <<>>
    \/ \E i \in 1..Len(route.methods) : route.methods[i] = method

\* Route::allows_method
AllowsMethod(route, method) ==
    \/ route.methods = <<>>
    \/ \E i \in 1..Len(route.methods) : EqIgnoreAsciiCase(route.methods[i], method)

\* schema.rs validate_route: TRUE iff the route is accepted
ValidateRoute(route) ==
    /\ route.id # <<>>
    /\ route.path # <<>>
    /\ StartsWith(route.path, S_slash)
    /\ route.upstream # <<>>
    /\ (StartsWith(route.upstream, S_http) \/ StartsWith(route.upstream, S_https))

\* ----------------------------------------------------------------- router
EmptyMap == [p \in {} |-> NoRoute]

MapInsert(map, key, val) ==
    [p \in (DOMAIN map) \cup {key} |-> IF p = key THEN val ELSE map[p]]

RECURSIVE CollectFrom(_, _, _)
CollectFrom(routes, i, map) ==
    IF i > Len(routes) THEN map
    ELSE CollectFrom(routes, i + 1,
                     IF routes[i].active
                     THEN MapInsert(map, routes[i].path, routes[i])
                     ELSE map)

\* faulty variant: the active filter is dropped
RECURSIVE CollectAllFrom(_, _, _)
CollectAllFrom(routes, i, map) ==
    IF i > Len(routes) THEN map
    ELSE CollectAllFrom(routes, i + 1, MapInsert(map, routes[i].path, routes[i]))

BuildRouterMapNoFilter(routes) ==
    CollectAllFrom(routes, 1, EmptyMap)

\* router.rs build_router_map: filter active, key by path, later entries
\* with the same path replace earlier ones (HashMap collect)
BuildRouterMap(routes) ==
    CollectFrom(routes, 1, EmptyMap)

\* faulty variant: the wildcard does not accept the bare prefix
PathMatchesStrict(path, pattern) ==
    IF EndsWith(pattern, <<"/", "*">>)
    THEN LET prefix == SubSeq(pattern, 1, Len(pattern) - 2)
         IN  /\ StartsWith(path, prefix)
             /\ Len(path) > Len(prefix)
             /\ path[Len(prefix) + 1] = "/"
    ELSE IF EndsWith(pattern, S_slash)
    THEN StartsWith(path, pattern) \/ path = TrimEndMatches(pattern, "/")
    ELSE path = pattern

\* faulty variant: the prefix branch compares without the boundary slash
PathMatchesLoosePrefix(path, pattern) ==
    IF EndsWith(pattern, <<"/", "*">>)
    THEN LET prefix == SubSeq(pattern, 1, Len(pattern) - 2)
         IN  /\ StartsWith(path, prefix)
             /\ \/ Len(path) = Len(prefix)
                \/ StartsWith(SubSeq(path, Len(prefix) + 1, Len(path)), S_slash)
    ELSE IF EndsWith(pattern, S_slash)
    THEN StartsWith(path, TrimEndMatches(pattern, "/"))
    ELSE path = pattern

\* router.rs path_matches
PathMatches(path, pattern) ==
    IF EndsWith(pattern, <<"/", "*">>)
    THEN LET prefix == SubSeq(pattern, 1, Len(pattern) - 2)
         IN  /\ StartsWith(path, prefix)
             /\ \/ Len(path) = Len(prefix)
                \/ StartsWith(SubSeq(path, Len(prefix) + 1, Len(path)), S_slash)
    ELSE IF EndsWith(pattern, S_slash)
    THEN StartsWith(path, pattern) \/ path = TrimEndMatches(pattern, "/")
    ELSE path = pattern

\* Iterator::max_by_key over the map's iteration order: the last of the
\* maximal elements is returned; best = <<>> stands for "none yet"
RECURSIVE MaxByKeyLen(_, _, _, _)
MaxByKeyLen(path, order, i, best) ==
    IF i > Len(order) THEN best
    ELSE IF PathMatches(path, order[i]) /\ (best = <<>> \/ Len(order[i]) >= Len(best))
         THEN MaxByKeyLen(path, order, i + 1, order[i])
         ELSE MaxByKeyLen(path, order, i + 1, best)

\* faulty variant: the first matching pattern in iteration order wins
RECURSIVE FirstMatch(_, _, _)
FirstMatch(path, order, i) ==
    IF i > Len(order) THEN <<>>
    ELSE IF PathMatches(path, order[i]) THEN order[i]
         ELSE FirstMatch(path, order, i + 1)

MatchRouteFirst(path, map, order) ==
    IF path \in DOMAIN map THEN map[path]
    ELSE LET best == FirstMatch(path, order, 1)
         IN  IF best = <<>> THEN NoRoute ELSE map[best]

\* faulty variant: the exact-match fast path is missing
MatchRouteNoExact(path, map, order) ==
    LET best == MaxByKeyLen(path, order, 1, <<>>)
    IN  IF best = <<>> THEN NoRoute ELSE map[best]

\* router.rs match_route; order is the iteration order of the HashMap
\* (a permutation of its keys), NoRoute is None
MatchRoute(path, map, order) ==
    IF path \in DOMAIN map THEN map[path]
    ELSE LET best == MaxByKeyLen(path, order, 1, <<>>)
         IN  IF best = <<>> THEN NoRoute ELSE map[best]

\* all iteration orders a HashMap with the given key set can have
Orders(keys) ==
    {o \in [1..Cardinality(keys) -> keys] : \A k \in keys : \E i \in DOMAIN o : o[i] = k}

\* ------------------------------------------------------------------ state
VARIABLES
    store,      \* routes collection: record id -> Route or NoRoute
    ver,        \* number of committed writes to the routes collection
    config,     \* Arc<ArcSwap<RouterMap>>: the published table
    wpc,        \* start_config_watcher: position of the watcher task
    wroutes,    \* routes fetched by the watcher's reload_config
    wver,       \* store version the watcher's fetch saw
    queue,      \* live-query stream: number of items not yet consumed
    fpc,        \* force_reload: position of the administrative reload
    froutes,    \* routes fetched by force_reload's reload_config
    fver,       \* store version force_reload's fetch saw
    rpc,        \* handle_request: position of the request handler
    rpath,      \* path of the request being handled
    rmethod,    \* method of the request being handled
    rsnap,      \* router_map = config.load() held by the handler
    rresp,      \* last response of the handler
    pubVer,     \* store version the published table was fetched at
    prevVer,    \* store version the table published before it was fetched at
    mpc,        \* router check: position
    mroutes,    \* router check: routes given to build_router_map
    mtable,     \* router check: table built by build_router_map
    morder2,    \* router check: a second iteration order of the same map
    mpath,      \* router check: request path
    mhits,      \* router check: keys of the table that path_matches accepts
    mresult,    \* router check: match_route under mtable.order
    mresult2,   \* router check: match_route under morder2
    hpc,        \* handler check: position
    hroutes,    \* handler check: routes the table is built from
    htable,     \* handler check: the table behind the pointer
    hpath,      \* handler check: request path
    hmethod,    \* handler check: request method
    hgate,      \* handler check: what the security stages say of the request
    hresp,      \* handler check: response of handle_request
    svcConfig,  \* Arc<ArcSwap<ServiceConfig>>: listener id -> ListenerConfig
    listeners,  \* ListenerManager.listeners: id -> handle (config, task state)
    masterCancelled, \* ListenerManager.master_cancel has been cancelled
    detached,   \* per id: spawned tasks still alive whose JoinHandle was dropped
    events,     \* events sent on event_tx by the manager call in progress or last made
    lpc,        \* position of the manager call (reconcile / shutdown)
    lconfig,    \* reconcile: config = self.config.load()
    lqueue,     \* ids the loop in progress has still to visit, in iteration order
    lbefore,    \* listeners map as the manager call found it
    lops,       \* number of manager calls made
    now,        \* Instant::now(), in seconds
    defaultConfig, \* RateLimiter.default_config
    keyConfigs, \* RateLimiter.key_configs: key -> RateLimitConfig or NoConfig
    buckets,    \* RateLimiter.buckets: key -> TokenBucket or NoBucket
    lastResult, \* Option<RateLimitResult> the last check / get_state returned
    allowedLog, \* per key: times of the allowed checks since its config was set
    nchecks,    \* number of check calls made
    jwtConfig,  \* JwtValidator.config: enabled, cache_ttl_secs
    jwtCache,   \* JwtValidator.cache: token -> entry (claims, time of insertion) or NoEntry
    jwtClock,   \* wall clock and cache clock, in seconds
    jwtResult,  \* Option of the last outcome of validate, with the time it returned at
    wafConfig, \* WafEngine.config
    wafPayload, \* payload handed to scan
    wafResult, \* Option of what scan returned, or of its panic
    mqPattern, \* topic_matches: pattern
    mqTopic, \* topic_matches: topic
    mqResult, \* Option of what topic_matches returned
    soapXml, \* SoapEnvelope::parse: the events the XML reader yields for the document
    soapPc, \* SOAP adapter: position
    soapEnvelope, \* Option of the Result of SoapEnvelope::parse
    soapOperation, \* what operation_name returned for the parsed envelope
    soapContext, \* Option of the NaseejContext to_context built
    wlog, \* lines the watcher wrote with tracing::error! / warn!, each with the version published then
    cThreads, \* per thread: position in check_with_cost, its key, the bucket value it read, its result
    shardGuard, \* per key: the thread holding the RefMut of the buckets map entry
    bucketGuard, \* per key: the thread holding the bucket Mutex
    cCreated, \* per key: number of TokenBucket::new calls
    cAdmitted, \* per key: number of checks that returned allowed
    mChan, \* the mpsc channel between Meter and MeterCollector
    mChanSize, \* MeterConfig::channel_size
    mBatchSize, \* MeterConfig::batch_size
    mSenders, \* number of live Meter handles
    mBatch, \* MeterCollector::batch
    mTotal, \* MeterCollector::total_events
    mFlushed, \* the batches handed to flush_fn, in order
    meterPc, \* position of MeterCollector::run: select or stopped
    mRecords, \* number of Meter::record calls so far
    bridgeCancel, \* the CancellationToken shared by the bridge and the client
    bridgePc, \* position of MqttBridge::run: select, sending or returned
    bridgeCtx, \* the context MqttBridge::run is sending, if any
    loopPc, \* position of the event loop task: select, sending, sleeping or exited
    loopMsg, \* the message the event loop task is sending, if any
    messageCh, \* channel message_tx -> message_rx of MqttClient
    toGatewayCh, \* channel from the bridge to the holder of the returned receiver
    toMqttCh, \* channel from the holder of the returned sender to the bridge
    gatewayRx, \* whether the returned receiver is still alive
    nIncoming, \* number of publishes received from the broker so far
    nOutbound \* number of contexts sent towards MQTT so far

storeVars == <<store, ver>>
watcherVars == <<wpc, wroutes, wver>>
forceVars == <<fpc, froutes, fver>>
readerVars == <<rpc, rpath, rmethod, rsnap, rresp>>
pubVars == <<config, pubVer, prevVer>>
routerVars == <<mpc, mroutes, mtable, morder2, mpath, mhits, mresult, mresult2>>

handlerVars == <<hpc, hroutes, htable, hpath, hmethod, hgate, hresp>>

supVars == <<svcConfig, listeners, masterCancelled, detached, events, lpc, lconfig,
             lqueue, lbefore, lops>>

\* state of the subsystems that are exercised by specifications of their own
rateVars == <<now, defaultConfig, keyConfigs, buckets, lastResult, allowedLog, nchecks>>

jwtVars == <<jwtConfig, jwtCache, jwtClock, jwtResult>>

wafVars == <<wafConfig, wafPayload, wafResult>>

topicVars == <<mqPattern, mqTopic, mqResult>>

soapVars == <<soapXml, soapPc, soapEnvelope, soapOperation, soapContext>>

reloadVars == <<wlog>>

concVars == <<cThreads, shardGuard, bucketGuard, cCreated, cAdmitted>>

meterVars == <<mChan, mChanSize, mBatchSize, mSenders, mBatch, mTotal, mFlushed, meterPc, mRecords>>

bridgeVars == <<bridgeCancel, bridgePc, bridgeCtx, loopPc, loopMsg, messageCh, toGatewayCh, toMqttCh, gatewayRx, nIncoming, nOutbound>>

\* state of the security filters and protocol adapters
extVars == <<jwtVars, wafVars, topicVars, soapVars, reloadVars, concVars, meterVars, bridgeVars>>

subsysVars == <<handlerVars, supVars, rateVars, extVars>>

mainVars == <<storeVars, queue, watcherVars, forceVars, readerVars, pubVars>>

vars == <<storeVars, queue, watcherVars, forceVars, readerVars, pubVars, routerVars,
          subsysVars>>

\* ----------------------------------------------------------------- inputs
StoreIds == {Id1, Id2}

\* record ids in the key order of the routes table
IdOrder == <<Id1, Id2>>

\* routes offered to create_route / update_route: one per rejection branch
\* of validate_route, and accepted routes that differ in id, path, scheme,
\* active flag and method set
RouteInputs ==
    { MkRoute(<<>>, S_a, UpU, TRUE, <<>>),
      MkRoute(Id1, <<>>, UpU, TRUE, <<>>),
      MkRoute(Id1, S_noslash, UpU, TRUE, <<>>),
      MkRoute(Id1, S_a, <<>>, TRUE, <<>>),
      MkRoute(Id1, S_a, UpFtp, TRUE, <<>>),
      MkRoute(Id1, S_a, UpU, TRUE, <<>>),
      MkRoute(Id1, S_a, UpU, TRUE, <<M_GET>>),
      MkRoute(Id2, S_a, UpV, TRUE, <<>>),
      MkRoute(Id2, S_aW, UpV, TRUE, <<M_GET>>),
      MkRoute(Id2, S_aW, UpV, FALSE, <<>>) }

ReqPaths == {S_a, S_aSb}

ReqMethods == {M_get, M_POST}

\* a RouterMap instance: its entries and its iteration order
MkTable(map, order) == [map |-> map, order |-> order]

EmptyTable == MkTable(EmptyMap, <<>>)

\* schema.rs get_all_routes: db.select("routes"), rows in record-id order
GetAllRoutes(s) ==
    SelectSeq([i \in 1..Len(IdOrder) |-> s[IdOrder[i]]], LAMBDA r : r # NoRoute)

\* faulty variant: the method gate is evaluated against a second load of the pointer
HandleOutcomeReload(path, method, snap, cur) ==
    LET route == MatchRoute(path, snap.map, snap.order)
        gate == IF route # NoRoute /\ route.path \in DOMAIN cur.map
                THEN cur.map[route.path] ELSE route
    IN  IF route = NoRoute THEN [status |-> 404, upstream |-> <<>>]
        ELSE IF ~AllowsMethod(gate, method) THEN [status |-> 405, upstream |-> <<>>]
        ELSE [status |-> 200, upstream |-> route.upstream]

\* handler.rs handle_request after config.load(): snap is the loaded
\* router_map, cur the pointer's value when the response is computed
HandleOutcome(path, method, snap, cur) ==
    LET route == MatchRoute(path, snap.map, snap.order)
    IN  IF route = NoRoute THEN [status |-> 404, upstream |-> <<>>]
        ELSE IF ~AllowsMethod(route, method) THEN [status |-> 405, upstream |-> <<>>]
        ELSE [status |-> 200, upstream |-> route.upstream]

NoResp == [status |-> 0, upstream |-> <<>>]

\* ------------------------------------------------------------ supervisor
L1 == <<"L", "1">>
L2 == <<"L", "2">>

SupIds == {L1, L2}

NoListener == [none |-> TRUE]

NoHandle == [none |-> TRUE]

\* supervisor.rs default_drain_timeout
DefaultDrainTimeout == 30

\* ListenerConfig; host, name and the protocol document are left at their
\* defaults
MkListener(id, protocol, port, enabled, drain) ==
    [id |-> id, protocol |-> protocol, port |-> port, enabled |-> enabled,
     drain_timeout_secs |-> drain]

\* listener specs a config generation can hold for each id
ListenerInputs ==
    { MkListener(L1, "http", 8080, TRUE, DefaultDrainTimeout),
      MkListener(L1, "http", 8081, TRUE, DefaultDrainTimeout),
      MkListener(L1, "http", 8080, TRUE, 0),
      MkListener(L1, "http", 8080, FALSE, DefaultDrainTimeout),
      MkListener(L2, "mqtt", 1883, TRUE, DefaultDrainTimeout) }

\* ServiceConfig generations: at most one spec per id
ServiceConfigs ==
    { c \in [SupIds -> ListenerInputs \cup {NoListener}] :
        \A id \in SupIds : c[id] # NoListener => c[id].id = id }

\* ListenerHandle: the config the listener was started with and the state
\* of its task: "running" (waiting on its token), "cancelled" (token
\* cancelled, task not yet returned), "exited"
MkHandle(cfg, task) == [config |-> cfg, task |-> task]

\* ListenerEvent
Started(l) == [kind |-> "Started", id |-> l.id, protocol |-> l.protocol, port |-> l.port]
Stopped(id) == [kind |-> "Stopped", id |-> id]
Restarted(id) == [kind |-> "Restarted", id |-> id]

\* ListenerManager::is_running
IsRunning(ls, id) == ls[id] # NoHandle

\* ListenerManager::listener_count
ListenerCount(ls) == Cardinality({id \in SupIds : ls[id] # NoHandle})

\* reconcile: expected = config.enabled_listeners() keyed by id
Expected(c) ==
    {id \in SupIds : c[id] # NoListener /\ c[id].enabled}

\* ---------------------------------------------------------- rate limiter
K1 == <<"k", "1">>
K2 == <<"k", "2">>

RateKeys == {K1, K2}

NoConfig == [none |-> TRUE]

NoBucket == [none |-> TRUE]

\* RateLimitConfig; the distributed flag is read nowhere
MkRateConfig(rpw, window, burst) ==
    [requests_per_window |-> rpw, window_secs |-> window, burst_size |-> burst]

\* TokenBucket.  tokens holds the f64 token count multiplied by the
\* bucket's window_secs, which makes every value the code computes an
\* integer: one token is window_secs units and a second refills
\* requests_per_window units
MkBucket(tokens, last, cfg) == [tokens |-> tokens, last_update |-> last, config |-> cfg]

\* u64::MAX, written as the largest integer the checker represents
U64Max == 2^30 + (2^30 - 1)

\* ceil(a / b) and floor(a / b) for a >= 0, b > 0
CeilDiv(a, b) == (a + b - 1) \div b

\* max_tokens = (requests_per_window + burst_size) as f64, in bucket units
MaxTokens(cfg) == (cfg.requests_per_window + cfg.burst_size) * cfg.window_secs

\* faulty variant: a new bucket starts with requests_per_window tokens only
NewBucketNoBurst(cfg, t) ==
    MkBucket(cfg.requests_per_window * cfg.window_secs, t, cfg)

\* TokenBucket::new
NewBucket(cfg, t) ==
    MkBucket(MaxTokens(cfg), t, cfg)

\* TokenBucket::refill at time t
Refill(b, t) ==
    LET added == (t - b.last_update) * b.config.requests_per_window
        total == b.tokens + added
    IN  MkBucket(IF total < MaxTokens(b.config) THEN total ELSE MaxTokens(b.config),
                 t, b.config)

\* ((tokens_needed / refill_rate) * 1000.0) as u64, tokens_needed in
\* bucket units: the cast truncates, maps NaN (0 / 0) to 0 and saturates
\* at infinity
MsTrunc(needed, cfg) ==
    IF cfg.requests_per_window = 0
    THEN (IF needed = 0 THEN 0 ELSE U64Max)
    ELSE (1000 * needed) \div cfg.requests_per_window

\* ((tokens_needed / refill_rate) * 1000.0).ceil() as u64
MsCeil(needed, cfg) ==
    IF cfg.requests_per_window = 0
    THEN (IF needed = 0 THEN 0 ELSE U64Max)
    ELSE CeilDiv(1000 * needed, cfg.requests_per_window)

MkResult(allowed, remaining, limit, reset, retry) ==
    [allowed |-> allowed, remaining |-> remaining, limit |-> limit,
     reset_after_ms |-> reset, retry_after_ms |-> retry]

\* TokenBucket::try_consume(cost) at time t: the bucket afterwards and the
\* result; Option is a sequence of length 0 or 1
TryConsume(b, cost, t) ==
    LET r == Refill(b, t)
        c == cost * b.config.window_secs
    IN  IF r.tokens >= c
        THEN LET left == MkBucket(r.tokens - c, r.last_update, r.config)
             IN  [bucket |-> left,
                  result |-> MkResult(TRUE, left.tokens \div b.config.window_secs,
                                      b.config.requests_per_window,
                                      MsTrunc(MaxTokens(b.config) - left.tokens, b.config),
                                      <<>>)]
        ELSE [bucket |-> r,
              result |-> MkResult(FALSE, 0, b.config.requests_per_window,
                                  b.config.window_secs * 1000,
                                  <<MsCeil(c - r.tokens, b.config)>>)]

\* check_with_cost: the config a missing bucket is created with
ConfigFor(k) ==
    IF keyConfigs[k] # NoConfig THEN keyConfigs[k] ELSE defaultConfig

\* ------------------------------------------------------------ jwt data
\* a token is named by its raw string; what decode finds in it is fixed
TokA == <<"t", "A">>
TokB == <<"t", "B">>
TokBad == <<"t", "X">>
TokenNames == {TokA, TokB, TokBad}

\* auth.rs Claims: the fields validate looks at or returns
MkClaims(sub, exp) == [sub |-> sub, exp |-> exp]

\* validate with config.enabled = false: the dummy claims, exp = u64::MAX
AnonymousClaims == MkClaims("anonymous", U64Max)

\* the claims signed into each token; TokBad carries a signature that does
\* not verify
TokenClaims(tok) ==
    IF tok = TokA THEN MkClaims("user123", 1) ELSE MkClaims("user456", 2)

SignatureOk(tok) == tok # TokBad

NoAuthConfig == [none |-> TRUE]

MkAuthConfig(enabled, ttl) == [enabled |-> enabled, cache_ttl_secs |-> ttl]

NoEntry == [none |-> TRUE]

MkEntry(claims, t) == [claims |-> claims, inserted |-> t]

\* outcome of validate: Ok(claims) or Err(TokenExpired | TokenInvalid)
JwtOk(claims, t) == [kind |-> "Ok", claims |-> claims, at |-> t]

JwtErr(e, t) == [kind |-> e, claims |-> MkClaims("", 0), at |-> t]

\* decode::<Claims>(token, key, validation) with the mapping of its errors:
\* the signature is verified, then exp is compared with the clock (taken
\* without leeway)
Decode(tok, t) ==
    IF ~SignatureOk(tok) THEN JwtErr("TokenInvalid", t)
    ELSE IF TokenClaims(tok).exp < t THEN JwtErr("TokenExpired", t)
    ELSE JwtOk(TokenClaims(tok), t)

\* cache.get(token): an entry is served until its time_to_live has elapsed
CacheGet(c, cfg, tok, t) ==
    IF c[tok] # NoEntry /\ t < c[tok].inserted + cfg.cache_ttl_secs
    THEN <<c[tok].claims>>
    ELSE <<>>

\* JwtValidator::validate: the value returned and the cache it leaves
Validate(c, cfg, tok, t) ==
    IF ~cfg.enabled THEN [result |-> JwtOk(AnonymousClaims, t), cache |-> c]
    ELSE LET hit == CacheGet(c, cfg, tok, t)
             dec == Decode(tok, t)
         IN  IF hit # <<>> THEN [result |-> JwtOk(hit[1], t), cache |-> c]
             ELSE IF dec.kind # "Ok" THEN [result |-> dec, cache |-> c]
             ELSE [result |-> dec,
                   cache |-> [c EXCEPT ![tok] = MkEntry(dec.claims, t)]]

\* ------------------------------------------------------------- waf data
\* regular expressions as syntax trees; Ends gives the positions at which a
\* match that starts after the first i characters of s can end
RLit(l) == [t |-> "lit", lit |-> l]

RClass(c) == [t |-> "class", class |-> c]

RWordB == [t |-> "wordb"]

RAlt(of) == [t |-> "alt", of |-> of]

RCat(of) == [t |-> "cat", of |-> of]

RStar(n) == [t |-> "star", of |-> <<n>>]

RPlus(n) == RCat(<<n, RStar(n)>>)

ROpt(n) == RAlt(<<n, RLit(<<>>)>>)

UpperLetters == <<"A", "B", "C", "D", "E", "F", "G", "H", "I", "J", "K", "L", "M", "N", "O", "P", "Q", "R", "S", "T", "U", "V", "W", "X", "Y", "Z">>

LowerLetters == <<"a", "b", "c", "d", "e", "f", "g", "h", "i", "j", "k", "l", "m", "n", "o", "p", "q", "r", "s", "t", "u", "v", "w", "x", "y", "z">>

Digits == {"0", "1", "2", "3", "4", "5", "6", "7", "8", "9"}

\* the backtick, named because a string literal cannot hold it
CharBacktick == "U+0060"

\* a character outside ASCII, two bytes long in UTF-8
CharE2 == "U+00E9"

\* bytes a character takes in the payload's UTF-8 encoding
ByteLen(ch) == IF ch = CharE2 THEN 2 ELSE 1

\* \w
IsWordChar(ch) ==
    \/ \E i \in DOMAIN UpperLetters : ch = UpperLetters[i] \/ ch = LowerLetters[i]
    \/ ch \in Digits
    \/ ch = "_"
    \/ ch = CharE2

\* \s, \d and .
InClass(ch, c) ==
    CASE c = "s" -> ch \in {" ", "\t", "\n", "\r"}
      [] c = "d" -> ch \in Digits
      [] c = "dot" -> ch # "\n"

\* (?i): letters compare by their lower-case form
FoldCase(s) ==
    [i \in DOMAIN s |->
        IF \E k \in DOMAIN UpperLetters : UpperLetters[k] = s[i]
        THEN LowerLetters[CHOOSE k \in DOMAIN UpperLetters : UpperLetters[k] = s[i]]
        ELSE s[i]]

\* the k-th character of s is a word character
IsWordAt(s, k) == k >= 1 /\ k <= Len(s) /\ IsWordChar(s[k])

RECURSIVE Ends(_, _, _), CatEnds(_, _, _, _), StarEnds(_, _, _, _)

Ends(re, s, i) ==
    CASE re.t = "lit" ->
            IF i + Len(re.lit) <= Len(s) /\ SubSeq(s, i + 1, i + Len(re.lit)) = re.lit
            THEN {i + Len(re.lit)} ELSE {}
      [] re.t = "class" ->
            IF i < Len(s) /\ InClass(s[i + 1], re.class) THEN {i + 1} ELSE {}
      [] re.t = "wordb" ->
            IF IsWordAt(s, i) # IsWordAt(s, i + 1) THEN {i} ELSE {}
      [] re.t = "alt" -> UNION {Ends(re.of[k], s, i) : k \in DOMAIN re.of}
      [] re.t = "cat" -> CatEnds(re.of, 1, s, {i})
      [] re.t = "star" -> StarEnds(re.of[1], s, {i}, {i})

CatEnds(nodes, k, s, from) ==
    IF k > Len(nodes) THEN from
    ELSE CatEnds(nodes, k + 1, s, UNION {Ends(nodes[k], s, j) : j \in from})

StarEnds(n, s, frontier, seen) ==
    LET next == UNION {Ends(n, s, j) : j \in frontier} \ seen
    IN  IF next = {} THEN seen ELSE StarEnds(n, s, next, seen \cup next)

MkPattern(ci, re) == [ci |-> ci, re |-> re]

\* Regex::is_match: the pattern matches somewhere in s
IsMatch(p, s) ==
    LET t == IF p.ci THEN FoldCase(s) ELSE s
    IN  \E i \in 0..Len(t) : Ends(p.re, t, i) # {}

\* RegexSet::is_match: some pattern of the set matches
SetIsMatch(ps, s) == \E k \in DOMAIN ps : IsMatch(ps[k], s)

\* waf.rs WafEngine::new: the four built-in groups
SqlPatterns == <<
    MkPattern(TRUE,
        RCat(<<RWordB, RAlt(<<RLit(<<"s", "e", "l", "e", "c", "t">>), RLit(<<"i", "n", "s", "e", "r", "t">>), RLit(<<"u", "p", "d", "a", "t", "e">>), RLit(<<"d", "e", "l", "e", "t", "e">>), RLit(<<"d", "r", "o", "p">>), RLit(<<"u", "n", "i", "o", "n">>)>>), RWordB, RStar(RClass("dot")), RWordB, RAlt(<<RLit(<<"f", "r", "o", "m">>), RLit(<<"i", "n", "t", "o">>), RLit(<<"w", "h", "e", "r", "e">>), RLit(<<"s", "e", "t">>)>>), RWordB>>)),
    MkPattern(TRUE,
        RAlt(<<RLit(<<"-", "-">>), RLit(<<"#">>), RLit(<<"/", "*">>), RLit(<<"*", "/">>)>>)),
    MkPattern(TRUE,
        RCat(<<RWordB, RAlt(<<RLit(<<"o", "r">>), RLit(<<"a", "n", "d">>)>>), RWordB, RPlus(RClass("s")), RPlus(RClass("d")), RStar(RClass("s")), RLit(<<"=">>), RStar(RClass("s")), RPlus(RClass("d"))>>)),
    MkPattern(TRUE,
        RCat(<<RLit(<<"u", "n", "i", "o", "n">>), RPlus(RClass("s")), ROpt(RCat(<<RLit(<<"a", "l", "l">>), RPlus(RClass("s"))>>)), RLit(<<"s", "e", "l", "e", "c", "t">>)>>))
    >>

XssPatterns == <<
    MkPattern(TRUE,
        RLit(<<"<", "s", "c", "r", "i", "p", "t">>)),
    MkPattern(TRUE,
        RCat(<<RLit(<<"j", "a", "v", "a", "s", "c", "r", "i", "p", "t">>), RStar(RClass("s")), RLit(<<":">>)>>)),
    MkPattern(TRUE,
        RCat(<<RLit(<<"o", "n">>), RAlt(<<RLit(<<"l", "o", "a", "d">>), RLit(<<"e", "r", "r", "o", "r">>), RLit(<<"c", "l", "i", "c", "k">>)>>), RStar(RClass("s")), RLit(<<"=">>)>>)),
    MkPattern(TRUE,
        RCat(<<RLit(<<"e", "v", "a", "l">>), RStar(RClass("s")), RLit(<<"(">>)>>))
    >>

PathPatterns == <<
    MkPattern(FALSE,
        RAlt(<<RLit(<<".", ".", "/">>), RLit(<<".", ".", "\\">>)>>)),
    MkPattern(TRUE,
        RLit(<<"/", "e", "t", "c", "/", "p", "a", "s", "s", "w", "d">>)),
    MkPattern(TRUE,
        RLit(<<"%", "2", "e", "%", "2", "e", "%", "2", "f">>))
    >>

CmdPatterns == <<
    MkPattern(FALSE,
        RAlt(<<RLit(<<"|">>), RLit(<<";">>), RLit(<<"$", "(">>), RLit(<<CharBacktick>>)>>)),
    MkPattern(TRUE,
        RCat(<<RWordB, RAlt(<<RLit(<<"c", "a", "t">>), RLit(<<"l", "s">>), RLit(<<"w", "h", "o", "a", "m", "i">>), RLit(<<"i", "d">>)>>), RWordB>>)),
    MkPattern(TRUE,
        RCat(<<RLit(<<"/", "b", "i", "n", "/">>), RAlt(<<RLit(<<"s", "h">>), RLit(<<"b", "a", "s", "h">>)>>)>>))
    >>

NoWafConfig == [none |-> TRUE]

MkCustomPattern(id, pattern, category, severity) ==
    [id |-> id, pattern |-> pattern, category |-> category, severity |-> severity]

MkWafConfig(enabled, mode, size, custom) ==
    [enabled |-> enabled, mode |-> mode, max_body_size |-> size,
     custom_patterns |-> custom]

\* WafConfig::default().max_body_size = 1024 * 1024
DefaultMaxBodySize == 1048576

RECURSIVE ByteLenOf(_)
\* str::len, in bytes
ByteLenOf(s) == IF s = <<>> THEN 0 ELSE ByteLen(Head(s)) + ByteLenOf(Tail(s))

\* &payload[..n]: the characters of the first n bytes, or a panic when byte
\* n is not a character boundary
SliceTo(s, n) ==
    LET cuts == {k \in 0..Len(s) : ByteLenOf(SubSeq(s, 1, k)) = n}
    IN  IF cuts = {} THEN [panic |-> TRUE, content |-> <<>>]
        ELSE [panic |-> FALSE, content |-> SubSeq(s, 1, CHOOSE k \in cuts : TRUE)]

\* scan: the content handed to check_patterns
Content(cfg, payload) ==
    IF ByteLenOf(payload) > cfg.max_body_size
    THEN SliceTo(payload, cfg.max_body_size)
    ELSE [panic |-> FALSE, content |-> payload]

\* WafEngine::new: custom = Some(RegexSet) iff custom_patterns is not empty
CustomSet(cfg) ==
    IF cfg.custom_patterns # <<>>
    THEN <<[k \in DOMAIN cfg.custom_patterns |-> cfg.custom_patterns[k].pattern]>>
    ELSE <<>>

\* WafEngine::check_patterns
CheckPatterns(cfg, content) ==
    IF SetIsMatch(SqlPatterns, content) THEN <<[id |-> "SQL-1", category |-> "SQL Injection"]>>
    ELSE IF SetIsMatch(XssPatterns, content)
        THEN <<[id |-> "XSS-1", category |-> "Cross-Site Scripting"]>>
    ELSE IF SetIsMatch(PathPatterns, content)
        THEN <<[id |-> "PATH-1", category |-> "Path Traversal"]>>
    ELSE IF SetIsMatch(CmdPatterns, content)
        THEN <<[id |-> "CMD-1", category |-> "Command Injection"]>>
    ELSE IF CustomSet(cfg) # <<>> /\ SetIsMatch(CustomSet(cfg)[1], content)
        THEN <<[id |-> cfg.custom_patterns[1].id,
                category |-> cfg.custom_patterns[1].category]>>
    ELSE <<>>

MkWafResult(allowed, rule, category, us) ==
    [panic |-> FALSE, allowed |-> allowed, triggered_rule |-> rule,
     category |-> category, scan_time_us |-> us]

WafPanic == [panic |-> TRUE]

\* a mode that lets every detected request through
AllowedOnMatchAlways(mode) == TRUE

\* scan: allowed of a result that reports a rule
AllowedOnMatch(mode) == mode = "DetectOnly"

\* WafEngine::scan, us being what start.elapsed() measured
Scan(cfg, payload, us) ==
    IF ~cfg.enabled THEN MkWafResult(TRUE, <<>>, <<>>, 0)
    ELSE LET c == Content(cfg, payload)
             hit == CheckPatterns(cfg, c.content)
         IN  IF c.panic THEN WafPanic
             ELSE IF hit # <<>>
             THEN MkWafResult(AllowedOnMatch(cfg.mode), <<hit[1].id>>,
                              <<hit[1].category>>, us)
             ELSE MkWafResult(TRUE, <<>>, <<>>, us)

\* ------------------------------------------------------------ mqtt data
RECURSIVE SplitSlash(_)
\* str::split('/').collect(): the parts between the slashes, at least one
SplitSlash(s) ==
    LET idx == {i \in DOMAIN s : s[i] = "/"}
        i == CHOOSE j \in idx : \A k \in idx : j <= k
    IN  IF idx = {} THEN <<s>>
        ELSE <<SubSeq(s, 1, i - 1)>> \o SplitSlash(SubSeq(s, i + 1, Len(s)))

RECURSIVE TopicLoop(_, _, _, _)
\* bridge.rs topic_matches: the while loop and the final comparison, with
\* p and t the numbers of parts already consumed
TopicLoop(pp, tp, p, t) ==
    IF p < Len(pp) /\ t < Len(tp)
    THEN IF pp[p + 1] = <<"#">> THEN TRUE
         ELSE IF pp[p + 1] = <<"+">> THEN TopicLoop(pp, tp, p + 1, t + 1)
         ELSE IF pp[p + 1] # tp[t + 1] THEN FALSE
         ELSE TopicLoop(pp, tp, p + 1, t + 1)
    ELSE p = Len(pp) /\ t = Len(tp)

\* bridge.rs topic_matches
TopicMatches(pat, topic) == TopicLoop(SplitSlash(pat), SplitSlash(topic), 0, 0)

\* ------------------------------------------------------------ soap data
\* serde_json::Value
JNull == [t |-> "null"]

JStr(s) == [t |-> "str", s |-> s]

JArr(a) == [t |-> "arr", a |-> a]

\* an object: a map from keys to values
JObj(m) == [t |-> "obj", m |-> m]

\* a Map with the single entry key: value
JSingle(key, value) == JObj([k \in {key} |-> value])

N_Envelope == <<"E", "n", "v", "e", "l", "o", "p", "e">>

N_Header == <<"H", "e", "a", "d", "e", "r">>

N_Body == <<"B", "o", "d", "y">>

N_Fault == <<"F", "a", "u", "l", "t">>

N_Action == <<"A", "c", "t", "i", "o", "n">>

\* XmlToJson::default().text_key
TextKey == <<"#", "t", "e", "x", "t">>

\* XmlToJson::default().attribute_prefix
AttributePrefix == <<"@">>

\* events of quick_xml's Reader: Start, Empty, Text, End; the end of the
\* sequence is Eof
EvStart(name, attrs) == [k |-> "Start", name |-> name, attrs |-> attrs, text |-> <<>>]

EvEmpty(name, attrs) == [k |-> "Empty", name |-> name, attrs |-> attrs, text |-> <<>>]

EvText(text) == [k |-> "Text", name |-> <<>>, attrs |-> <<>>, text |-> text]

EvEnd == [k |-> "End", name |-> <<>>, attrs |-> <<>>, text |-> <<>>]

\* str::split(':').last()
LastOfColonSplit(s) ==
    LET idx == {i \in DOMAIN s : s[i] = ":"}
        i == CHOOSE j \in idx : \A k \in idx : j >= k
    IN  IF idx = {} THEN s ELSE SubSeq(s, i + 1, Len(s))

\* XmlToJson::element_name with strip_namespaces = true
ElementName(ev) == LastOfColonSplit(ev.name)

\* the attributes of a start tag as the entries obj.insert puts into the map
AttrKeys(ev) == {AttributePrefix \o ev.attrs[k].key : k \in DOMAIN ev.attrs}

AttrValue(ev, key) ==
    LET hits == {k \in DOMAIN ev.attrs : AttributePrefix \o ev.attrs[k].key = key}
    IN  JStr(ev.attrs[CHOOSE k \in hits : \A j \in hits : j <= k].value)

\* XmlToJson::parse_empty_element
ParseEmptyElement(ev) ==
    IF AttrKeys(ev) = {} THEN JSingle(ElementName(ev), JNull)
    ELSE JSingle(ElementName(ev), JObj([key \in AttrKeys(ev) |-> AttrValue(ev, key)]))

ParseFailed(i) == [err |-> TRUE, value |-> JNull, kids |-> <<>>, text |-> <<>>, next |-> i]

RECURSIVE ParseElement(_, _), ParseChildren(_, _, _, _)

\* XmlToJson::parse_element called with the start event evs[i]
ParseElement(evs, i) ==
    LET start == evs[i]
        name == ElementName(start)
        loop == ParseChildren(evs, i + 1, <<>>, <<>>)
        childNames == {loop.kids[k].name : k \in DOMAIN loop.kids}
        group(n) == LET of == SelectSeq(loop.kids, LAMBDA x : x.name = n)
                    IN  IF Len(of) = 1 THEN of[1].value
                        ELSE JArr([k \in DOMAIN of |-> of[k].value])
        keys == AttrKeys(start) \cup childNames
        obj == [key \in keys |->
                    IF key \in childNames THEN group(key) ELSE AttrValue(start, key)]
        withText == [key \in keys \cup {TextKey} |->
                        IF key = TextKey THEN JStr(loop.text) ELSE obj[key]]
    IN  IF loop.err THEN ParseFailed(loop.next)
        ELSE IF loop.text # <<>> /\ keys = {}
            THEN [err |-> FALSE, value |-> JSingle(name, JStr(loop.text)),
                  kids |-> <<>>, text |-> <<>>, next |-> loop.next]
        ELSE IF loop.text # <<>>
            THEN [err |-> FALSE, value |-> JSingle(name, JObj(withText)),
                  kids |-> <<>>, text |-> <<>>, next |-> loop.next]
        ELSE [err |-> FALSE, value |-> JSingle(name, JObj(obj)),
              kids |-> <<>>, text |-> <<>>, next |-> loop.next]

\* parse_element: the loop over the events inside an element, up to its End
ParseChildren(evs, i, kids, text) ==
    IF i > Len(evs) THEN ParseFailed(i)
    ELSE CASE evs[i].k = "Start" ->
                LET r == ParseElement(evs, i)
                    name == ElementName(evs[i])
                    \* children.entry(child_name).or_default().push(child_value)
                IN  IF r.err THEN r
                    ELSE ParseChildren(evs, r.next,
                            Append(kids, [name |-> name,
                                          value |-> r.value]), text)
           [] evs[i].k = "Empty" ->
                ParseChildren(evs, i + 1,
                    Append(kids, [name |-> ElementName(evs[i]),
                                  value |-> ParseEmptyElement(evs[i])]), text)
           [] evs[i].k = "Text" -> ParseChildren(evs, i + 1, kids, text \o evs[i].text)
           [] evs[i].k = "End" ->
                [err |-> FALSE, value |-> JNull, kids |-> kids, text |-> text,
                 next |-> i + 1]

\* XmlToJson::transcode followed by serde_json::from_slice: the JSON value of
\* the first element of the document
Transcode(evs) ==
    LET first == {i \in DOMAIN evs : evs[i].k \in {"Start", "Empty"}}
        i == CHOOSE j \in first : \A k \in first : j <= k
    IN  IF first = {} THEN [err |-> FALSE, value |-> JNull]
        ELSE IF evs[i].k = "Empty" THEN [err |-> FALSE, value |-> ParseEmptyElement(evs[i])]
        ELSE [err |-> ParseElement(evs, i).err, value |-> ParseElement(evs, i).value]

\* Value::get(key)
JGet(json, key) ==
    IF json.t = "obj" /\ key \in DOMAIN json.m THEN <<json.m[key]>> ELSE <<>>

\* envelope.rs find_element; the inputs here never hold two keys with the
\* same local name
FindElement(json, name) ==
    LET hits == IF json.t = "obj"
                THEN {key \in DOMAIN json.m : key = name \/ LastOfColonSplit(key) = name}
                ELSE {}
    IN  IF hits = {} THEN <<>> ELSE <<json.m[CHOOSE key \in hits : TRUE]>>

\* Option::or_else
OrElse(a, b) == IF a # <<>> THEN a ELSE b

MkEnvelope(headers, body, action, fault) ==
    [err |-> "", headers |-> headers, body |-> body, action |-> action,
     is_fault |-> fault]

EnvelopeErr(e) ==
    [err |-> e, headers |-> <<>>, body |-> JNull, action |-> <<>>, is_fault |-> FALSE]

\* from_json: the action read from the headers
ActionOf(headers) ==
    IF headers = <<>> THEN <<>>
    ELSE LET a == OrElse(JGet(headers[1], N_Action), FindElement(headers[1], N_Action))
         IN  IF a = <<>> THEN <<>>
             ELSE IF a[1].t = "str" THEN <<a[1].s>>
             ELSE IF a[1].t = "obj" /\ TextKey \in DOMAIN a[1].m /\ a[1].m[TextKey].t = "str"
                 THEN <<a[1].m[TextKey].s>>
             ELSE <<>>

\* SoapEnvelope::from_json
FromJson(json) ==
    LET envelope == OrElse(JGet(json, N_Envelope), FindElement(json, N_Envelope))
        headers == OrElse(JGet(envelope[1], N_Header), FindElement(envelope[1], N_Header))
        body == OrElse(JGet(envelope[1], N_Body), FindElement(envelope[1], N_Body))
        fault == JGet(body[1], N_Fault) # <<>> \/ FindElement(body[1], N_Fault) # <<>>
    IN  IF envelope = <<>> THEN EnvelopeErr("Missing SOAP Envelope")
        ELSE IF body = <<>> THEN EnvelopeErr("Missing SOAP Body")
        ELSE MkEnvelope(headers, body[1], ActionOf(headers), fault)

\* SoapEnvelope::parse
SoapParse(evs) ==
    LET json == Transcode(evs)
    IN  IF json.err THEN EnvelopeErr("Unexpected end of file") ELSE FromJson(json.value)

\* operation_name: the keys of the body the loop can return, the first of
\* them in the map's iteration order
OperationNames(env) ==
    IF env.body.t = "obj"
    THEN {key \in DOMAIN env.body.m :
            ~StartsWith(key, AttributePrefix) /\ key # TextKey /\ key # N_Fault}
    ELSE {}

\* operation_name: None, or Some of the first qualifying key
OperationOutcomes(env) ==
    IF OperationNames(env) = {} THEN {<<>>} ELSE {<<n>> : n \in OperationNames(env)}

RECURSIVE KeySeq(_)
\* the keys of a map in one order
KeySeq(keys) ==
    IF keys = {} THEN <<>>
    ELSE LET k == CHOOSE x \in keys : TRUE IN <<k>> \o KeySeq(keys \ {k})

RECURSIVE ToJsonText(_), JoinMembers(_, _), JoinItems(_)

\* serde_json::to_vec; the strings here need no escape
ToJsonText(v) ==
    CASE v.t = "null" -> <<"n", "u", "l", "l">>
      [] v.t = "str" -> <<"\"">> \o v.s \o <<"\"">>
      [] v.t = "arr" -> <<"[">> \o JoinItems(v.a) \o <<"]">>
      [] v.t = "obj" -> <<"{">> \o JoinMembers(v.m, KeySeq(DOMAIN v.m)) \o <<"}">>

JoinMembers(m, ks) ==
    IF ks = <<>> THEN <<>>
    ELSE <<"\"">> \o ks[1] \o <<"\"", ":">> \o ToJsonText(m[ks[1]])
         \o (IF Len(ks) > 1 THEN <<",">> ELSE <<>>) \o JoinMembers(m, Tail(ks))

JoinItems(a) ==
    IF a = <<>> THEN <<>>
    ELSE ToJsonText(a[1]) \o (IF Len(a) > 1 THEN <<",">> ELSE <<>>) \o JoinItems(Tail(a))

DefaultDestination == <<"/", "s", "o", "a", "p">>

\* SoapEnvelope::to_context, op being what operation_name returned
ToContext(env, op) ==
    [protocol |-> "Soap",
     destination |-> IF env.action # <<>> THEN env.action[1]
                     ELSE IF op # <<>> THEN op[1] ELSE DefaultDestination,
     payload |-> ToJsonText(env.body),
     content_type |-> "application/json",
     is_fault |-> env.is_fault]

\* ---------------------------------------------- concurrent checks, data
Threads == {"T1", "T2"}

NoThread == "none"

MkThread(pc, key, local, result) == [pc |-> pc, key |-> key, local |-> local, result |-> result]

IdleThread == MkThread("idle", <<>>, NoBucket, <<>>)

\* a guard that excludes nobody
GuardFreeAlways(holder) == TRUE

\* DashMap entry guard and parking_lot Mutex: acquired only when nobody
\* holds them
GuardFree(holder) == holder = NoThread

\* ------------------------------------------------------ metering, data
UsageEvents == {"e1", "e2"}

\* mpsc::Sender::try_send: the event is queued unless the channel is full
TrySend(chan, size, ev) == IF Len(chan) < size THEN Append(chan, ev) ELSE chan

\* what self.receiver.recv() resolves to: an event, None once every sender
\* is gone and the channel is empty, or nothing yet
RecvPoll(chan, senders) ==
    IF chan # <<>> THEN "some"
    ELSE IF senders = 0 THEN "none"
    ELSE "pending"

\* select! disables a branch whose future completed with a value that does
\* not match the branch's pattern: `Some(event)` against None
RecvDisabled(chan, senders) == RecvPoll(chan, senders) = "none"

\* `_ = interval.tick()` : every Instant matches the pattern
TickDisabled == FALSE

\* select! runs its else branch when every branch is disabled
ElseTaken(chan, senders) == RecvDisabled(chan, senders) /\ TickDisabled

\* the branches select! can take in one turn of the loop
ReadyBranches(chan, senders) ==
    {br \in {"recv", "tick", "else"} :
        \/ br = "recv" /\ RecvPoll(chan, senders) = "some"
        \/ br = "tick" /\ ~TickDisabled
        \/ br = "else" /\ ElseTaken(chan, senders)}

\* the receive branch of run: push, then flush a full batch
AfterRecv(batch, flushed, size, ev) ==
    LET b == Append(batch, ev)
    IN  IF Len(b) >= size
        THEN [batch |-> <<>>, flushed |-> Append(flushed, b)]
        ELSE [batch |-> b, flushed |-> flushed]

\* the tick branch and the final flush of run: flush a non-empty batch
FlushNonEmpty(batch, flushed) ==
    IF batch # <<>>
    THEN [batch |-> <<>>, flushed |-> Append(flushed, batch)]
    ELSE [batch |-> batch, flushed |-> flushed]

\* -------------------------------------------------------- mqtt bridge, data
MkTopicRoute(pat, dest) == [topic_pattern |-> pat, target_destination |-> dest]

\* MqttBridge::find_route: the first route whose pattern matches, if any
FindRoute(routes, topic) ==
    LET idx == {i \in DOMAIN routes : TopicMatches(routes[i].topic_pattern, topic)}
    IN  IF idx = {} THEN <<>>
        ELSE <<routes[CHOOSE i \in idx : \A j \in idx : i <= j]>>

\* mpsc::Sender::send can complete: there is room, or the receiver is gone
SendCompletes(chan, rxAlive) == Len(chan) < MaxQueued \/ ~rxAlive

\* the channel after a completed send
AfterSend(chan, rxAlive, item) == IF rxAlive THEN Append(chan, item) ELSE chan

\* the receiver message_rx lives in the MqttClient that run owns: it is
\* dropped when run returns
MessageRxAlive(pc) == pc # "returned"

\* ------------------------------------------------------------------- init
RouterIdle ==
    /\ mpc = "off"
    /\ mroutes = <<>>
    /\ mtable = EmptyTable
    /\ morder2 = <<>>
    /\ mpath = <<>>
    /\ mhits = {}
    /\ mresult = NoRoute
    /\ mresult2 = NoRoute

HandlerIdle ==
    /\ hpc = "off"
    /\ hroutes = <<>>
    /\ htable = EmptyTable
    /\ hpath = <<>>
    /\ hmethod = <<>>
    /\ hgate = "pass"
    /\ hresp = NoResp

\* supervisor.rs ListenerManager::new over an empty ServiceConfig
SupIdle ==
    /\ svcConfig = [id \in SupIds |-> NoListener]
    /\ listeners = [id \in SupIds |-> NoHandle]
    /\ masterCancelled = FALSE
    /\ detached = [id \in SupIds |-> 0]
    /\ events = <<>>
    /\ lpc = "idle"
    /\ lconfig = [id \in SupIds |-> NoListener]
    /\ lqueue = <<>>
    /\ lbefore = [id \in SupIds |-> NoHandle]
    /\ lops = 0

\* no RateLimiter constructed
RateIdle ==
    /\ now = 0
    /\ defaultConfig = NoConfig
    /\ keyConfigs = [k \in RateKeys |-> NoConfig]
    /\ buckets = [k \in RateKeys |-> NoBucket]
    /\ lastResult = <<>>
    /\ allowedLog = [k \in RateKeys |-> <<>>]
    /\ nchecks = 0

\* no JwtValidator constructed
JwtIdle ==
    /\ jwtConfig = NoAuthConfig
    /\ jwtCache = [t \in TokenNames |-> NoEntry]
    /\ jwtClock = 0
    /\ jwtResult = <<>>

\* no WafEngine constructed
WafIdle ==
    /\ wafConfig = NoWafConfig
    /\ wafPayload = <<>>
    /\ wafResult = <<>>

\* no topic_matches call
TopicIdle ==
    /\ mqPattern = <<>>
    /\ mqTopic = <<>>
    /\ mqResult = <<>>

\* no SOAP request
SoapIdle ==
    /\ soapXml = <<>>
    /\ soapPc = "off"
    /\ soapEnvelope = <<>>
    /\ soapOperation = <<>>
    /\ soapContext = <<>>

\* the watcher has logged no failure
ReloadIdle ==
    /\ wlog = <<>>

\* no thread is calling the limiter
ConcIdle ==
    /\ cThreads = [t \in Threads |-> IdleThread]
    /\ shardGuard = [k \in RateKeys |-> NoThread]
    /\ bucketGuard = [k \in RateKeys |-> NoThread]
    /\ cCreated = [k \in RateKeys |-> 0]
    /\ cAdmitted = [k \in RateKeys |-> 0]

\* no meter exists
MeterIdle ==
    /\ mChan = <<>>
    /\ mChanSize = 0
    /\ mBatchSize = 0
    /\ mSenders = 0
    /\ mBatch = <<>>
    /\ mTotal = 0
    /\ mFlushed = <<>>
    /\ meterPc = "none"
    /\ mRecords = 0

\* no bridge exists
BridgeIdle ==
    /\ bridgeCancel = FALSE
    /\ bridgePc = "none"
    /\ bridgeCtx = <<>>
    /\ loopPc = "none"
    /\ loopMsg = <<>>
    /\ messageCh = <<>>
    /\ toGatewayCh = <<>>
    /\ toMqttCh = <<>>
    /\ gatewayRx = FALSE
    /\ nIncoming = 0
    /\ nOutbound = 0

ExtIdle ==
    /\ JwtIdle
    /\ WafIdle
    /\ TopicIdle
    /\ SoapIdle
    /\ ReloadIdle
    /\ ConcIdle
    /\ MeterIdle
    /\ BridgeIdle

SubsysIdle ==
    /\ HandlerIdle
    /\ SupIdle
    /\ RateIdle
    /\ ExtIdle

\* main.rs: empty database, ArcSwap::from_pointee(HashMap::new()), watcher
\* task spawned, no request yet
MainInit ==
    /\ store = [i \in StoreIds |-> NoRoute]
    /\ ver = 0
    /\ config = EmptyTable
    /\ wpc = "start"
    /\ wroutes = <<>>
    /\ wver = 0
    /\ queue = 0
    /\ fpc = "idle"
    /\ froutes = <<>>
    /\ fver = 0
    /\ rpc = "idle"
    /\ rpath = <<>>
    /\ rmethod = <<>>
    /\ rsnap = EmptyTable
    /\ rresp = NoResp
    /\ pubVer = -1
    /\ prevVer = -1

Init ==
    /\ MainInit
    /\ RouterIdle
    /\ SubsysIdle

\* --------------------------------------------------------- store writes
Subscribed == wpc \in {"wait", "reload", "fetched"}

\* the live query yields one stream item per committed change once the
\* subscription exists
Notify(q) ==
    IF Subscribed THEN q + 1 ELSE q

Commit(newStore) ==
    /\ ver < MaxWrites
    /\ store' = newStore
    /\ ver' = ver + 1
    /\ queue' = Notify(queue)
    /\ UNCHANGED <<subsysVars, watcherVars, forceVars, readerVars, pubVars, routerVars>>

\* schema.rs create_route
CreateRoute ==
    \E r \in RouteInputs :
        /\ ValidateRoute(r)
        /\ r.id \in StoreIds
        /\ store[r.id] = NoRoute
        /\ Commit([store EXCEPT ![r.id] = r])

\* schema.rs update_route
UpdateRoute ==
    \E r \in RouteInputs :
        /\ ValidateRoute(r)
        /\ r.id \in StoreIds
        /\ store[r.id] # NoRoute
        /\ Commit([store EXCEPT ![r.id] = r])

\* schema.rs delete_route
DeleteRoute ==
    \E id \in StoreIds :
        /\ store[id] # NoRoute
        /\ Commit([store EXCEPT ![id] = NoRoute])

\* ---------------------------------------------------------------- reload
\* faulty variant: a diff-driven reload that publishes only the entries that differ
\* from the table in place
PublishDelta(routes, fetchedAt) ==
    LET full == BuildRouterMap(routes)
        keys == {p \in DOMAIN full :
                    p \notin DOMAIN config.map \/ config.map[p] # full[p]}
        map == [p \in keys |-> full[p]]
    IN  /\ \E o \in Orders(DOMAIN map) : config' = MkTable(map, o)
        /\ prevVer' = pubVer
        /\ pubVer' = fetchedAt

\* watcher.rs reload_config, second half: build_router_map and config.store
Publish(routes, fetchedAt) ==
    LET map == BuildRouterMap(routes)
    IN  /\ \E o \in Orders(DOMAIN map) : config' = MkTable(map, o)
        /\ prevVer' = pubVer
        /\ pubVer' = fetchedAt

\* watcher.rs reload_config, first half (get_all_routes), called from the
\* initial load and from the notification loop
WatcherFetch ==
    /\ wpc \in {"start", "reload"}
    /\ wroutes' = GetAllRoutes(store)
    /\ wver' = ver
    /\ wpc' = IF wpc = "start" THEN "init_fetched" ELSE "fetched"
    /\ UNCHANGED <<subsysVars, storeVars, queue, forceVars, readerVars, pubVars, routerVars>>

WatcherPublish ==
    /\ wpc \in {"init_fetched", "fetched"}
    /\ Publish(wroutes, wver)
    /\ wpc' = IF wpc = "init_fetched" THEN "init_loaded" ELSE "wait"
    /\ wroutes' = <<>>
    /\ wver' = 0
    /\ UNCHANGED <<subsysVars, storeVars, queue, forceVars, readerVars, routerVars>>

\* watcher.rs start_config_watcher: LIVE SELECT subscription established
WatcherSubscribe ==
    /\ wpc = "init_loaded"
    /\ wpc' = "wait"
    /\ UNCHANGED <<subsysVars, storeVars, queue, wroutes, wver, forceVars, readerVars,
                   pubVars, routerVars>>

\* watcher.rs start_config_watcher: stream.next() yields an item, which
\* is Ok(event), answered by a reload, or Err(e), which is only logged
WatcherRecv ==
    /\ wpc = "wait"
    /\ queue > 0
    /\ queue' = queue - 1
    /\ \E item \in {"ok", "err"} :
        wpc' = IF item = "ok" THEN "reload" ELSE "wait"
    /\ UNCHANGED <<subsysVars, storeVars, wroutes, wver, forceVars, readerVars, pubVars,
                   routerVars>>

\* watcher.rs force_reload
ForceFetch ==
    /\ fpc = "idle"
    /\ froutes' = GetAllRoutes(store)
    /\ fver' = ver
    /\ fpc' = "fetched"
    /\ UNCHANGED <<subsysVars, storeVars, queue, watcherVars, readerVars, pubVars, routerVars>>

ForcePublish ==
    /\ fpc = "fetched"
    /\ Publish(froutes, fver)
    /\ fpc' = "idle"
    /\ froutes' = <<>>
    /\ fver' = 0
    /\ UNCHANGED <<subsysVars, storeVars, queue, watcherVars, readerVars, routerVars>>

\* ------------------------------------------------------- request handling
\* handler.rs handle_request: let router_map = config.load()
HandleLoad ==
    /\ rpc = "idle"
    /\ \E p \in ReqPaths, m \in ReqMethods :
        /\ rpath' = p
        /\ rmethod' = m
    /\ rsnap' = config
    /\ rresp' = NoResp
    /\ rpc' = "loaded"
    /\ UNCHANGED <<subsysVars, storeVars, queue, watcherVars, forceVars, pubVars, routerVars>>

\* handler.rs handle_request: match_route, method gate, response; the
\* loaded guard is dropped when the handler returns
HandleRespond ==
    /\ rpc = "loaded"
    /\ rresp' = HandleOutcome(rpath, rmethod, rsnap, config)
    /\ rpc' = "idle"
    /\ rpath' = <<>>
    /\ rmethod' = <<>>
    /\ rsnap' = EmptyTable
    /\ UNCHANGED <<subsysVars, storeVars, queue, watcherVars, forceVars, pubVars, routerVars>>

Next ==
    \/ CreateRoute
    \/ UpdateRoute
    \/ DeleteRoute
    \/ WatcherFetch
    \/ WatcherPublish
    \/ WatcherSubscribe
    \/ WatcherRecv
    \/ ForceFetch
    \/ ForcePublish
    \/ HandleLoad
    \/ HandleRespond

Spec == Init /\ [][Next]_vars

\* ------------------------------------------------- router as a function
\* patterns and request paths the router functions are applied to
PatternUniverse ==
    {S_slash, S_W, S_a, S_aS, S_aSS, S_aW, S_apiUsers, S_apiW, S_v2S}

PathUniverse ==
    {S_slash, S_a, S_aS, S_ab, S_aSb, S_aSSb, S_aSbSb, S_b, S_api,
     S_apiUsers, S_apiOrders1, S_v2, S_v2Sx, S_v20}

RouteIds == <<Id1, Id2, Id3>>

\* route lists for build_router_map: the i-th route has the i-th id
RouteLists ==
    UNION { { [i \in 1..n |-> MkRoute(RouteIds[i], ps[i], UpU, TRUE, <<>>)] :
                ps \in [1..n -> PatternUniverse] } : n \in 0..MaxTableRoutes }

RouterInit ==
    /\ MainInit
    /\ SubsysIdle
    /\ mpc = "input"
    /\ mroutes \in RouteLists
    /\ mpath \in PathUniverse
    /\ mtable = EmptyTable
    /\ morder2 = <<>>
    /\ mhits = {}
    /\ mresult = NoRoute
    /\ mresult2 = NoRoute

\* build_router_map(mroutes) collected into two HashMap instances with the
\* same entries, each with an iteration order of its own
RouterBuild ==
    /\ mpc = "input"
    /\ LET map == BuildRouterMap(mroutes)
       IN  /\ \E o \in Orders(DOMAIN map) : mtable' = MkTable(map, o)
           /\ morder2' \in Orders(DOMAIN map)
    /\ mpc' = "built"
    /\ UNCHANGED <<mroutes, mpath, mhits, mresult, mresult2>>
    /\ UNCHANGED <<subsysVars, storeVars, queue, watcherVars, forceVars, readerVars, pubVars>>

\* match_route(mpath, table) on both instances; mhits records path_matches
RouterMatch ==
    /\ mpc = "built"
    /\ mhits' = {p \in DOMAIN mtable.map : PathMatches(mpath, p)}
    /\ mresult' = MatchRoute(mpath, mtable.map, mtable.order)
    /\ mresult2' = MatchRoute(mpath, mtable.map, morder2)
    /\ mpc' = "done"
    /\ UNCHANGED <<mroutes, mtable, morder2, mpath>>
    /\ UNCHANGED <<subsysVars, storeVars, queue, watcherVars, forceVars, readerVars, pubVars>>

RouterNext ==
    \/ RouterBuild
    \/ RouterMatch

RouterSpec == RouterInit /\ [][RouterNext]_vars

\* ------------------------------------------- handle_request as a function
HandlerPatterns == {S_a, S_aW, S_b}

HandlerMethodSets == {<<>>, <<M_GET>>, <<M_POST>>, <<M_GET, M_POST>>}

HandlerPaths == {S_a, S_aSb, S_ab}

HandlerMethods == {M_GET, M_get, M_POST, M_PUT}

\* the first stage of the security crate that rejects the request: "waf"
\* when WafEngine::scan blocks it, "rate" when RateLimiter::check denies
\* it, "jwt" when JwtValidator::validate fails, "pass" when none does
HandlerGates == {"pass", "waf", "rate", "jwt"}

\* route lists behind the pointer: the i-th route has the i-th id and an
\* upstream of its own
HandlerUpstreams == <<UpU, UpV, S_http \o <<"w">>>>

HandlerRouteLists ==
    UNION { { [i \in 1..n |-> MkRoute(RouteIds[i], ps[i], HandlerUpstreams[i],
                                       TRUE, ms[i])] :
                ps \in [1..n -> HandlerPatterns],
                ms \in [1..n -> HandlerMethodSets] } : n \in 0..MaxTableRoutes }

HandlerInit ==
    /\ MainInit
    /\ RouterIdle
    /\ ExtIdle
    /\ SupIdle
    /\ RateIdle
    /\ hpc = "input"
    /\ hroutes \in HandlerRouteLists
    /\ hpath \in HandlerPaths
    /\ hmethod \in HandlerMethods
    /\ hgate \in HandlerGates
    /\ htable = EmptyTable
    /\ hresp = NoResp

\* the table stored behind the ArcSwap pointer before the request arrives
HandlerBuild ==
    /\ hpc = "input"
    /\ LET map == BuildRouterMap(hroutes)
       IN  \E o \in Orders(DOMAIN map) : htable' = MkTable(map, o)
    /\ hpc' = "built"
    /\ UNCHANGED <<hroutes, hpath, hmethod, hgate, hresp>>
    /\ UNCHANGED <<mainVars, routerVars, supVars, rateVars, extVars>>

\* handler.rs handle_request, from config.load() to the response
HandlerRespond ==
    /\ hpc = "built"
    /\ hresp' = HandleOutcome(hpath, hmethod, htable, htable)
    /\ hpc' = "done"
    /\ UNCHANGED <<hroutes, htable, hpath, hmethod, hgate>>
    /\ UNCHANGED <<mainVars, routerVars, supVars, rateVars, extVars>>

HandlerNext ==
    \/ HandlerBuild
    \/ HandlerRespond

HandlerSpec == HandlerInit /\ [][HandlerNext]_vars

\* ----------------------------------------------------- listener manager
\* the part of the manager state that start_listener / stop_listener write
MkSup(ls, det, ev) == [listeners |-> ls, detached |-> det, events |-> ev]

\* supervisor.rs start_listener: child token of the master token, task
\* spawned, handle inserted, Started sent; a child of a cancelled master is
\* born cancelled
StartListener(st, cfg) ==
    MkSup([st.listeners EXCEPT ![cfg.id] =
               MkHandle(cfg, IF masterCancelled THEN "cancelled" ELSE "running")],
          st.detached,
          Append(st.events, Started(cfg)))

\* tokio::time::timeout(drain_timeout, join_handle) can elapse: the task
\* has not returned yet and the deadline is immediate (the placeholder
\* listeners return as soon as they are polled after the cancellation)
CanTimeOut(handle) ==
    /\ handle.task # "exited"
    /\ handle.config.drain_timeout_secs = 0

\* supervisor.rs stop_listener: handle removed, token cancelled, join
\* awaited under the drain timeout, Stopped sent.  timedOut = FALSE: the
\* task returned while it was awaited.  timedOut = TRUE: the JoinHandle is
\* dropped at the deadline, which detaches the task and leaves it alive
StopListener(st, id, timedOut) ==
    IF st.listeners[id] = NoHandle THEN st
    ELSE MkSup([st.listeners EXCEPT ![id] = NoHandle],
               IF timedOut THEN [st.detached EXCEPT ![id] = @ + 1] ELSE st.detached,
               Append(st.events, Stopped(id)))

\* the outcomes the await in stop_listener(id) can have
StopOutcomes(st, id) ==
    IF st.listeners[id] # NoHandle /\ CanTimeOut(st.listeners[id])
    THEN {FALSE, TRUE} ELSE {FALSE}

SupState == MkSup(listeners, detached, events)

SetSup(st) ==
    /\ listeners' = st.listeners
    /\ detached' = st.detached
    /\ events' = st.events

supFrame == <<mainVars, routerVars, handlerVars, rateVars, extVars>>

\* the watcher stores a new ServiceConfig generation
SetConfig ==
    /\ \E c \in ServiceConfigs :
        /\ c # svcConfig
        /\ svcConfig' = c
    /\ UNCHANGED <<listeners, masterCancelled, detached, events, lpc, lconfig,
                   lqueue, lbefore, lops>>
    /\ UNCHANGED supFrame

\* reconcile: config.load(), expected, to_stop (in the key order of the
\* listeners map)
ReconcileBegin ==
    /\ lpc = "idle"
    /\ lops < MaxOps
    /\ lops' = lops + 1
    /\ lconfig' = svcConfig
    /\ lbefore' = listeners
    /\ events' = <<>>
    /\ lqueue' \in Orders({id \in SupIds :
                              IsRunning(listeners, id) /\ id \notin Expected(svcConfig)})
    /\ lpc' = "stop"
    /\ UNCHANGED <<svcConfig, listeners, masterCancelled, detached>>
    /\ UNCHANGED supFrame

\* reconcile: for id in to_stop { stop_listener(id) }
ReconcileStop ==
    /\ lpc = "stop"
    /\ lqueue # <<>>
    /\ \E timedOut \in StopOutcomes(SupState, Head(lqueue)) :
        SetSup(StopListener(SupState, Head(lqueue), timedOut))
    /\ lqueue' = Tail(lqueue)
    /\ UNCHANGED <<svcConfig, masterCancelled, lpc, lconfig, lbefore, lops>>
    /\ UNCHANGED supFrame

\* reconcile: the second loop starts, over expected in its iteration order
ReconcileExpected ==
    /\ lpc = "stop"
    /\ lqueue = <<>>
    /\ lqueue' \in Orders(Expected(lconfig))
    /\ lpc' = "apply"
    /\ UNCHANGED <<svcConfig, listeners, masterCancelled, detached, events, lconfig,
                   lbefore, lops>>
    /\ UNCHANGED supFrame

\* faulty variant: a listener that is present is left alone whatever its config
ApplyExpectedKeep(st, cfg, timedOut) ==
    IF st.listeners[cfg.id] # NoHandle THEN st
    ELSE StartListener(st, cfg)

\* faulty variant: Restarted is sent before the listener is stopped and started
ApplyExpectedEarly(st, cfg, timedOut) ==
    IF st.listeners[cfg.id] # NoHandle
    THEN IF st.listeners[cfg.id].config # cfg
         THEN LET announced == MkSup(st.listeners, st.detached,
                                     Append(st.events, Restarted(cfg.id)))
              IN  StartListener(StopListener(announced, cfg.id, timedOut), cfg)
         ELSE st
    ELSE StartListener(st, cfg)

\* faulty variant: a listener that is present is restarted whether or not its
\* config changed
ApplyExpectedAlways(st, cfg, timedOut) ==
    IF st.listeners[cfg.id] # NoHandle
    THEN LET stopped == StopListener(st, cfg.id, timedOut)
             started == StartListener(stopped, cfg)
         IN  MkSup(started.listeners, started.detached,
                   Append(started.events, Restarted(cfg.id)))
    ELSE StartListener(st, cfg)

\* reconcile, body of the second loop for one (id, listener_config)
ApplyExpected(st, cfg, timedOut) ==
    IF st.listeners[cfg.id] # NoHandle
    THEN IF st.listeners[cfg.id].config # cfg
         THEN LET stopped == StopListener(st, cfg.id, timedOut)
                  started == StartListener(stopped, cfg)
              IN  MkSup(started.listeners, started.detached,
                        Append(started.events, Restarted(cfg.id)))
         ELSE st
    ELSE StartListener(st, cfg)

ReconcileApply ==
    /\ lpc = "apply"
    /\ lqueue # <<>>
    /\ LET cfg == lconfig[Head(lqueue)]
           outcomes == IF IsRunning(listeners, cfg.id)
                          /\ listeners[cfg.id].config # cfg
                       THEN StopOutcomes(SupState, cfg.id) ELSE {FALSE}
       IN  \E timedOut \in outcomes : SetSup(ApplyExpected(SupState, cfg, timedOut))
    /\ lqueue' = Tail(lqueue)
    /\ UNCHANGED <<svcConfig, masterCancelled, lpc, lconfig, lbefore, lops>>
    /\ UNCHANGED supFrame

\* reconcile returns: the loaded cfg guard goes out of scope
ReconcileReturn ==
    /\ lpc = "apply"
    /\ lqueue = <<>>
    /\ lpc' = "idle"
    /\ lconfig' = [id \in SupIds |-> NoListener]
    /\ lbefore' = [id \in SupIds |-> NoHandle]
    /\ UNCHANGED <<svcConfig, listeners, masterCancelled, detached, events, lqueue, lops>>
    /\ UNCHANGED supFrame

\* faulty variant: the master token is cancelled and nothing else is done
ShutdownIdsNone(ls) == {}

\* shutdown: ids = self.listeners.keys()
ShutdownIds(ls) == {id \in SupIds : IsRunning(ls, id)}

\* shutdown: master_cancel.cancel() reaches every child token; ids collected
ShutdownBegin ==
    /\ lpc = "idle"
    /\ lops < MaxOps
    /\ lops' = lops + 1
    /\ masterCancelled' = TRUE
    /\ listeners' = [id \in SupIds |->
                        IF listeners[id] # NoHandle /\ listeners[id].task = "running"
                        THEN MkHandle(listeners[id].config, "cancelled")
                        ELSE listeners[id]]
    /\ lbefore' = listeners
    /\ events' = <<>>
    /\ lqueue' \in Orders(ShutdownIds(listeners))
    /\ lpc' = "shutdown"
    /\ UNCHANGED <<svcConfig, detached, lconfig>>
    /\ UNCHANGED supFrame

\* shutdown: for id in ids { stop_listener(id) }
ShutdownStop ==
    /\ lpc = "shutdown"
    /\ lqueue # <<>>
    /\ \E timedOut \in StopOutcomes(SupState, Head(lqueue)) :
        SetSup(StopListener(SupState, Head(lqueue), timedOut))
    /\ lqueue' = Tail(lqueue)
    /\ UNCHANGED <<svcConfig, masterCancelled, lpc, lconfig, lbefore, lops>>
    /\ UNCHANGED supFrame

ShutdownReturn ==
    /\ lpc = "shutdown"
    /\ lqueue = <<>>
    /\ lpc' = "idle"
    /\ lbefore' = [id \in SupIds |-> NoHandle]
    /\ UNCHANGED <<svcConfig, listeners, masterCancelled, detached, events, lconfig,
                   lqueue, lops>>
    /\ UNCHANGED supFrame

\* run_listener: a task whose token is cancelled returns
TaskExit ==
    /\ \E id \in SupIds :
        /\ listeners[id] # NoHandle
        /\ listeners[id].task = "cancelled"
        /\ listeners' = [listeners EXCEPT ![id] = MkHandle(@.config, "exited")]
    /\ UNCHANGED <<svcConfig, masterCancelled, detached, events, lpc, lconfig,
                   lqueue, lbefore, lops>>
    /\ UNCHANGED supFrame

\* run_listener: a detached task (its token was cancelled by stop_listener)
\* returns
DetachedExit ==
    /\ \E id \in SupIds :
        /\ detached[id] > 0
        /\ detached' = [detached EXCEPT ![id] = @ - 1]
    /\ UNCHANGED <<svcConfig, listeners, masterCancelled, events, lpc, lconfig,
                   lqueue, lbefore, lops>>
    /\ UNCHANGED supFrame

SupInit ==
    /\ MainInit
    /\ RouterIdle
    /\ ExtIdle
    /\ HandlerIdle
    /\ RateIdle
    /\ SupIdle

SupNext ==
    \/ SetConfig
    \/ ReconcileBegin
    \/ ReconcileStop
    \/ ReconcileExpected
    \/ ReconcileApply
    \/ ReconcileReturn
    \/ ShutdownBegin
    \/ ShutdownStop
    \/ ShutdownReturn
    \/ TaskExit
    \/ DetachedExit

SupSpec == SupInit /\ [][SupNext]_vars

\* a manager call, once made, is driven to its end by the caller awaiting it
SupFairSpec ==
    /\ SupSpec
    /\ WF_vars(ReconcileStop) /\ WF_vars(ReconcileExpected)
    /\ WF_vars(ReconcileApply) /\ WF_vars(ReconcileReturn)
    /\ WF_vars(ShutdownStop) /\ WF_vars(ShutdownReturn)

\* ----------------------------------------------------------- rate limiter
rateFrame == <<mainVars, routerVars, handlerVars, supVars, extVars>>

\* default configs: a slow bucket, one that refills half a token a
\* second, one that refills within a second
RateConfigs ==
    { MkRateConfig(1, 60, 0), MkRateConfig(1, 2, 1), MkRateConfig(2, 1, 0) }

\* configs given to set_key_config
OverrideConfigs ==
    { MkRateConfig(1, 1, 0), MkRateConfig(2, 1, 0) }

\* thresholds given to cleanup_expired
IdleThresholds == {0, 2}

\* check_with_cost(k, 1.0): the bucket is fetched or created, then charged
CheckKey(k) ==
    LET b == IF buckets[k] # NoBucket THEN buckets[k] ELSE NewBucket(ConfigFor(k), now)
        out == TryConsume(b, 1, now)
    IN  /\ buckets' = [buckets EXCEPT ![k] = out.bucket]
        /\ lastResult' = <<out.result>>
        /\ allowedLog' = IF out.result.allowed
                         THEN [allowedLog EXCEPT ![k] = Append(@, now)]
                         ELSE allowedLog
        /\ nchecks' = nchecks + 1
        /\ UNCHANGED <<now, defaultConfig, keyConfigs>>
        /\ UNCHANGED rateFrame

\* RateLimiter::check
Check ==
    /\ nchecks < MaxChecks
    /\ \E k \in RateKeys : CheckKey(k)

\* RateLimiter::get_state
GetState ==
    /\ \E k \in RateKeys :
        IF buckets[k] = NoBucket
        THEN /\ lastResult' = <<>>
             /\ UNCHANGED buckets
        ELSE LET r == Refill(buckets[k], now)
             IN  /\ buckets' = [buckets EXCEPT ![k] = r]
                 /\ lastResult' =
                      <<MkResult(TRUE, r.tokens \div r.config.window_secs,
                                 r.config.requests_per_window,
                                 MsTrunc(MaxTokens(r.config) - r.tokens, r.config),
                                 <<>>)>>
    /\ UNCHANGED <<now, defaultConfig, keyConfigs, allowedLog, nchecks>>
    /\ UNCHANGED rateFrame

\* RateLimiter::set_key_config; the log of allowed checks of the key
\* starts anew with its new config
SetKeyConfig ==
    /\ \E k \in RateKeys, c \in OverrideConfigs :
        /\ keyConfigs[k] # c
        /\ keyConfigs' = [keyConfigs EXCEPT ![k] = c]
        /\ allowedLog' = [allowedLog EXCEPT ![k] = <<>>]
    /\ UNCHANGED <<now, defaultConfig, buckets, lastResult, nchecks>>
    /\ UNCHANGED rateFrame

\* RateLimiter::cleanup_expired(max_idle_secs)
CleanupExpired ==
    /\ \E maxIdle \in IdleThresholds :
        buckets' = [k \in RateKeys |->
                       IF buckets[k] # NoBucket
                          /\ now - buckets[k].last_update < maxIdle
                       THEN buckets[k] ELSE NoBucket]
    /\ UNCHANGED <<now, defaultConfig, keyConfigs, lastResult, allowedLog, nchecks>>
    /\ UNCHANGED rateFrame

\* a second passes
Tick ==
    /\ now < MaxTime
    /\ now' = now + 1
    /\ UNCHANGED <<defaultConfig, keyConfigs, buckets, lastResult, allowedLog, nchecks>>
    /\ UNCHANGED rateFrame

\* RateLimiter::new(default_config)
RateInit ==
    /\ MainInit
    /\ RouterIdle
    /\ ExtIdle
    /\ HandlerIdle
    /\ SupIdle
    /\ now = 0
    /\ defaultConfig \in RateConfigs
    /\ keyConfigs = [k \in RateKeys |-> NoConfig]
    /\ buckets = [k \in RateKeys |-> NoBucket]
    /\ lastResult = <<>>
    /\ allowedLog = [k \in RateKeys |-> <<>>]
    /\ nchecks = 0

RateNext ==
    \/ Check
    \/ GetState
    \/ SetKeyConfig
    \/ CleanupExpired
    \/ Tick

RateSpec == RateInit /\ [][RateNext]_vars

\* ----------------------------------------- a burst of checks on one key
\* configs of the burst tests: window 60 s, requests_per_window 0..5,
\* burst_size 0..3
BurstConfigs ==
    { MkRateConfig(rpw, 60, burst) : rpw \in 0..5, burst \in 0..3 }

\* RateLimiter::new(config), or new followed by set_key_config(K1, config)
\* over a default that allows nothing
BurstInit ==
    /\ MainInit
    /\ RouterIdle
    /\ ExtIdle
    /\ HandlerIdle
    /\ SupIdle
    /\ now = 0
    /\ \E c \in BurstConfigs :
        \/ /\ defaultConfig = c
           /\ keyConfigs = [k \in RateKeys |-> NoConfig]
        \/ /\ defaultConfig = MkRateConfig(0, 60, 0)
           /\ keyConfigs = [k \in RateKeys |-> IF k = K1 THEN c ELSE NoConfig]
    /\ buckets = [k \in RateKeys |-> NoBucket]
    /\ lastResult = <<>>
    /\ allowedLog = [k \in RateKeys |-> <<>>]
    /\ nchecks = 0

\* limiter.check(K1) called in a loop, no time passing between the calls
BurstCheck ==
    /\ nchecks < MaxBurstChecks
    /\ CheckKey(K1)

BurstNext ==
    \/ BurstCheck

BurstSpec == BurstInit /\ [][BurstNext]_vars

\* -------------------------------------------------------- jwt validator
jwtFrame == <<mainVars, routerVars, handlerVars, supVars, rateVars, wafVars, topicVars,
              soapVars, reloadVars, concVars, meterVars, bridgeVars>>

\* AuthConfig values: the default TTL of 300 s, short TTLs, validation off
AuthConfigs ==
    {MkAuthConfig(TRUE, 300), MkAuthConfig(TRUE, 1), MkAuthConfig(TRUE, 0),
     MkAuthConfig(FALSE, 300)}

\* a caller presents a token
JwtValidate ==
    \E tok \in TokenNames :
        LET r == Validate(jwtCache, jwtConfig, tok, jwtClock)
        IN  /\ jwtResult' = <<r.result>>
            /\ jwtCache' = r.cache
            /\ UNCHANGED <<jwtConfig, jwtClock>>
            /\ UNCHANGED jwtFrame

\* one second passes
JwtTick ==
    /\ jwtClock < MaxClock
    /\ jwtClock' = jwtClock + 1
    /\ UNCHANGED <<jwtConfig, jwtCache, jwtResult>>
    /\ UNCHANGED jwtFrame

\* JwtValidator::new(config)
JwtInit ==
    /\ MainInit
    /\ RouterIdle
    /\ HandlerIdle
    /\ SupIdle
    /\ RateIdle
    /\ WafIdle
    /\ TopicIdle
    /\ SoapIdle
    /\ ReloadIdle
    /\ ConcIdle
    /\ MeterIdle
    /\ BridgeIdle
    /\ jwtConfig \in AuthConfigs
    /\ jwtCache = [t \in TokenNames |-> NoEntry]
    /\ jwtClock = 0
    /\ jwtResult = <<>>

JwtNext ==
    \/ JwtValidate
    \/ JwtTick

JwtSpec == JwtInit /\ [][JwtNext]_vars

\* ---------------------------------------------------------- waf engine
wafFrame == <<mainVars, routerVars, handlerVars, supVars, rateVars, jwtVars, topicVars,
              soapVars, reloadVars, concVars, meterVars, bridgeVars>>

P_sql == <<"S", "E", "L", "E", "C", "T", " ", "i", "d", " ", "F", "R", "O", "M", " ", "t", " ", "W", "H", "E", "R", "E", " ", "x", "=", "1", " ", "O", "R", " ", "1", "=", "1">>

P_hello == <<"H", "e", "l", "l", "o", ",", " ", "w", "o", "r", "l", "d">>

P_drop == <<"D", "R", "O", "P", " ", "T", "A", "B", "L", "E", " ", "u", "s", "e", "r", "s">>

P_script == <<"<", "s", "c", "r", "i", "p", "t", ">", "a", "l", "e", "r", "t", "(", "1", ")", "<", "/", "s", "c", "r", "i", "p", "t", ">">>

P_passwd == <<".", ".", "/", ".", ".", "/", ".", ".", "/", "e", "t", "c", "/", "p", "a", "s", "s", "w", "d">>

P_foo == <<"s", "a", "y", " ", "f", "o", "o">>

P_bar == <<"s", "a", "y", " ", "b", "a", "r">>

P_wide == <<"n", "a", "m", "e", "=", "r", "e", "n", CharE2, "e">>

Payloads == {P_sql, P_hello, P_drop, P_script, P_passwd, P_foo, P_bar, P_wide}

CustomFoo == MkCustomPattern("CUSTOM-FOO", MkPattern(FALSE, RLit(<<"f", "o", "o">>)), "Custom Foo", "High")

CustomBar == MkCustomPattern("CUSTOM-BAR", MkPattern(FALSE, RLit(<<"b", "a", "r">>)), "Custom Bar", "Low")

CustomChoices == {CustomFoo, CustomBar}

CustomLists == UNION {[1..n -> CustomChoices] : n \in 0..MaxCustom}

\* a limit that cuts the longer payloads, and the default
BodySizes == {9, DefaultMaxBodySize}

WafConfigs ==
    {MkWafConfig(e, m, z, c) :
        e \in BOOLEAN, m \in {"Block", "DetectOnly"}, z \in BodySizes, c \in CustomLists}

ScanTimes == {0, 1}

\* WafEngine::new(config) and the request to be scanned
WafInit ==
    /\ MainInit
    /\ RouterIdle
    /\ HandlerIdle
    /\ SupIdle
    /\ RateIdle
    /\ JwtIdle
    /\ TopicIdle
    /\ SoapIdle
    /\ ReloadIdle
    /\ ConcIdle
    /\ MeterIdle
    /\ BridgeIdle
    /\ wafConfig \in WafConfigs
    /\ wafPayload \in Payloads
    /\ wafResult = <<>>

WafScan ==
    /\ wafResult = <<>>
    /\ \E us \in ScanTimes : wafResult' = <<Scan(wafConfig, wafPayload, us)>>
    /\ UNCHANGED <<wafConfig, wafPayload>>
    /\ UNCHANGED wafFrame

WafNext ==
    \/ WafScan

WafSpec == WafInit /\ [][WafNext]_vars

\* ------------------------------------------------------ mqtt topic match
topicFrame == <<mainVars, routerVars, handlerVars, supVars, rateVars, jwtVars, wafVars,
                soapVars, reloadVars, concVars, meterVars, bridgeVars>>

RECURSIVE JoinSlash(_)
\* the text of a topic or pattern with the given levels
JoinSlash(levels) ==
    IF Len(levels) = 1 THEN levels[1]
    ELSE levels[1] \o <<"/">> \o JoinSlash(Tail(levels))

PatternLevels == {<<"s">>, <<"a">>, <<"+">>, <<"#">>}

TopicLevels == {<<"s">>, <<"a">>, <<"b">>}

TopicPatterns == {JoinSlash(l) : l \in UNION {[1..n -> PatternLevels] : n \in 1..MaxLevels}}

Topics == {JoinSlash(l) : l \in UNION {[1..n -> TopicLevels] : n \in 1..MaxLevels}}

\* a route's pattern and the topic of a received message
TopicInit ==
    /\ MainInit
    /\ RouterIdle
    /\ HandlerIdle
    /\ SupIdle
    /\ RateIdle
    /\ JwtIdle
    /\ WafIdle
    /\ SoapIdle
    /\ ReloadIdle
    /\ ConcIdle
    /\ MeterIdle
    /\ BridgeIdle
    /\ mqPattern \in TopicPatterns
    /\ mqTopic \in Topics
    /\ mqResult = <<>>

TopicMatch ==
    /\ mqResult = <<>>
    /\ mqResult' = <<TopicMatches(mqPattern, mqTopic)>>
    /\ UNCHANGED <<mqPattern, mqTopic>>
    /\ UNCHANGED topicFrame

TopicNext ==
    \/ TopicMatch

TopicSpec == TopicInit /\ [][TopicNext]_vars

\* --------------------------------------------------------- soap adapter
soapFrame == <<mainVars, routerVars, handlerVars, supVars, rateVars, jwtVars, wafVars,
               topicVars, reloadVars, concVars, meterVars, bridgeVars>>

N_GetUser == <<"G", "e", "t", "U", "s", "e", "r">>

N_ListUsers == <<"L", "i", "s", "t", "U", "s", "e", "r", "s">>

N_userId == <<"u", "s", "e", "r", "I", "d">>

N_faultcode == <<"f", "a", "u", "l", "t", "c", "o", "d", "e">>

Pfx_soap == <<"s", "o", "a", "p", ":">>

\* an element with content, as the reader reports it
Element(name, attrs, content) == <<EvStart(name, attrs)>> \o content \o <<EvEnd>>

XmlnsSoap == [key |-> <<"x", "m", "l", "n", "s", ":", "s", "o", "a", "p">>, value |-> <<"h", "t", "t", "p", ":", "/", "/", "s", "c", "h", "e", "m", "a", "s", ".", "x", "m", "l", "s", "o", "a", "p", ".", "o", "r", "g", "/", "s", "o", "a", "p", "/", "e", "n", "v", "e", "l", "o", "p", "e", "/">>]

UserIds == {<<"1", "2", "3">>, <<"4", "2">>}

\* content of the Body: an operation, an empty operation, a fault
BodyContents(pfx) ==
    {Element(N_GetUser, <<>>, Element(N_userId, <<>>, <<EvText(u)>>)) : u \in UserIds}
    \cup {<<EvEmpty(N_ListUsers, <<>>)>>,
          Element(pfx \o N_Fault, <<>>, Element(N_faultcode, <<>>, <<EvText(<<"x">>)>>))}

HeaderContents(pfx) ==
    {<<>>,
     Element(pfx \o N_Header, <<>>, <<>>),
     Element(pfx \o N_Header, <<>>, Element(N_Action, <<>>, <<EvText(<<"u", "r", "n">>)>>))}

\* envelopes with and without namespace prefix and declaration, with and
\* without Header, and envelopes without Body
SoapDocuments ==
    UNION {
        {Element(pfx \o N_Envelope, attrs, h \o Element(pfx \o N_Body, <<>>, b)) :
            h \in HeaderContents(pfx), b \in BodyContents(pfx)}
        \cup {Element(pfx \o N_Envelope, attrs, h) : h \in HeaderContents(pfx)}
        : pfx \in {<<>>, Pfx_soap}, attrs \in {<<>>, <<XmlnsSoap>>} }

\* a request body arrives at the SOAP adapter
SoapInit ==
    /\ MainInit
    /\ RouterIdle
    /\ HandlerIdle
    /\ SupIdle
    /\ RateIdle
    /\ JwtIdle
    /\ WafIdle
    /\ TopicIdle
    /\ ReloadIdle
    /\ ConcIdle
    /\ MeterIdle
    /\ BridgeIdle
    /\ soapXml \in SoapDocuments
    /\ soapPc = "input"
    /\ soapEnvelope = <<>>
    /\ soapOperation = <<>>
    /\ soapContext = <<>>

\* SoapEnvelope::parse(xml)
SoapParseStep ==
    /\ soapPc = "input"
    /\ soapEnvelope' = <<SoapParse(soapXml)>>
    /\ soapPc' = "parsed"
    /\ UNCHANGED <<soapXml, soapOperation, soapContext>>
    /\ UNCHANGED soapFrame

\* envelope.operation_name()
SoapOperationStep ==
    /\ soapPc = "parsed"
    /\ soapEnvelope[1].err = ""
    /\ soapOperation' \in OperationOutcomes(soapEnvelope[1])
    /\ soapPc' = "named"
    /\ UNCHANGED <<soapXml, soapEnvelope, soapContext>>
    /\ UNCHANGED soapFrame

\* envelope.to_context()
SoapContextStep ==
    /\ soapPc = "named"
    /\ soapContext' = <<ToContext(soapEnvelope[1], soapOperation)>>
    /\ soapPc' = "done"
    /\ UNCHANGED <<soapXml, soapEnvelope, soapOperation>>
    /\ UNCHANGED soapFrame

SoapNext ==
    \/ SoapParseStep
    \/ SoapOperationStep
    \/ SoapContextStep

SoapSpec == SoapInit /\ [][SoapNext]_vars

\* ------------------------------------------- watcher with failing reads
MkLogLine(line, published) == [line |-> line, pubVer |-> published]

\* a failed reload that swaps in an empty table
ReloadFailedClears(table) == EmptyTable

\* reload_config when get_all_routes returns Err: the `?` returns before
\* build_router_map and config.store, the pointer keeps its table
ReloadFailed(table) == table

reloadFrame == <<storeVars, forceVars, readerVars, routerVars, handlerVars, supVars,
                 rateVars, jwtVars, wafVars, topicVars, soapVars, concVars, meterVars,
                 bridgeVars>>

\* start_config_watcher: the initial reload_config fails and `?` returns
\* the error from the watcher
WatcherInitFails ==
    /\ wpc = "start"
    /\ Len(wlog) < MaxFailures
    /\ config' = ReloadFailed(config)
    /\ wpc' = "ended"
    /\ wlog' = Append(wlog, MkLogLine("initial_load_failed", pubVer))
    /\ UNCHANGED <<queue, wroutes, wver, pubVer, prevVer>>
    /\ UNCHANGED reloadFrame

\* start_config_watcher: reload_config fails in the notification loop; the
\* error is logged and the loop goes on
WatcherReloadFails ==
    /\ wpc = "reload"
    /\ Len(wlog) < MaxFailures
    /\ config' = ReloadFailed(config)
    /\ wpc' = "wait"
    /\ wlog' = Append(wlog, MkLogLine("reload_failed", pubVer))
    /\ UNCHANGED <<queue, wroutes, wver, pubVer, prevVer>>
    /\ UNCHANGED reloadFrame

\* start_config_watcher: stream.next() yields Ok(event)
WatcherRecvOk ==
    /\ wpc = "wait"
    /\ queue > 0
    /\ queue' = queue - 1
    /\ wpc' = "reload"
    /\ UNCHANGED <<wroutes, wver, pubVars, wlog>>
    /\ UNCHANGED reloadFrame

\* start_config_watcher: stream.next() yields Err(e); it is logged and the
\* loop goes on
WatcherRecvErr ==
    /\ wpc = "wait"
    /\ queue > 0
    /\ Len(wlog) < MaxFailures
    /\ queue' = queue - 1
    /\ wpc' = "wait"
    /\ wlog' = Append(wlog, MkLogLine("recv_error", pubVer))
    /\ UNCHANGED <<wroutes, wver, pubVars>>
    /\ UNCHANGED reloadFrame

ReloadNext ==
    \/ CreateRoute
    \/ UpdateRoute
    \/ DeleteRoute
    \/ WatcherFetch
    \/ WatcherPublish
    \/ WatcherSubscribe
    \/ WatcherInitFails
    \/ WatcherReloadFails
    \/ WatcherRecvOk
    \/ WatcherRecvErr

ReloadSpec == Init /\ [][ReloadNext]_vars

\* ---------------------------------------------------- concurrent checks
concFrame == <<mainVars, routerVars, handlerVars, supVars, jwtVars, wafVars, topicVars,
               soapVars, reloadVars, meterVars, bridgeVars>>

ConcConfigs == {MkRateConfig(1, 60, 0), MkRateConfig(1, 60, 1), MkRateConfig(2, 60, 0)}

\* a thread calls check(key)
ConcCall(t) ==
    /\ cThreads[t].pc = "idle"
    /\ nchecks < MaxConcChecks
    /\ nchecks' = nchecks + 1
    /\ \E k \in RateKeys : cThreads' = [cThreads EXCEPT ![t] = MkThread("entry", k, NoBucket, <<>>)]
    /\ UNCHANGED <<now, defaultConfig, keyConfigs, buckets, lastResult, allowedLog>>
    /\ UNCHANGED <<shardGuard, bucketGuard, cCreated, cAdmitted>>
    /\ UNCHANGED concFrame

\* check_with_cost: buckets.entry(key).or_insert_with(..), which locks the
\* entry's shard and keeps it locked while `bucket` is alive
ConcEntry(t) ==
    LET k == cThreads[t].key
    IN  /\ cThreads[t].pc = "entry"
        /\ GuardFree(shardGuard[k])
        /\ shardGuard' = [shardGuard EXCEPT ![k] = t]
        /\ IF buckets[k] = NoBucket
           THEN /\ buckets' = [buckets EXCEPT ![k] = NewBucket(ConfigFor(k), now)]
                /\ cCreated' = [cCreated EXCEPT ![k] = @ + 1]
           ELSE UNCHANGED <<buckets, cCreated>>
        /\ cThreads' = [cThreads EXCEPT ![t].pc = "lock"]
        /\ UNCHANGED <<now, defaultConfig, keyConfigs, lastResult, allowedLog, nchecks>>
        /\ UNCHANGED <<bucketGuard, cAdmitted>>
        /\ UNCHANGED concFrame

\* check_with_cost: bucket.lock()
ConcLock(t) ==
    LET k == cThreads[t].key
    IN  /\ cThreads[t].pc = "lock"
        /\ GuardFree(bucketGuard[k])
        /\ bucketGuard' = [bucketGuard EXCEPT ![k] = t]
        /\ cThreads' = [cThreads EXCEPT ![t].pc = "read"]
        /\ UNCHANGED rateVars
        /\ UNCHANGED <<shardGuard, cCreated, cAdmitted>>
        /\ UNCHANGED concFrame

\* try_consume: the bucket's fields are read
ConcRead(t) ==
    LET k == cThreads[t].key
    IN  /\ cThreads[t].pc = "read"
        /\ cThreads' = [cThreads EXCEPT ![t].pc = "write", ![t].local = buckets[k]]
        /\ UNCHANGED rateVars
        /\ UNCHANGED <<shardGuard, bucketGuard, cCreated, cAdmitted>>
        /\ UNCHANGED concFrame

\* try_consume: the refilled and charged fields are written, the result built
ConcWrite(t) ==
    LET k == cThreads[t].key
        out == TryConsume(cThreads[t].local, 1, now)
    IN  /\ cThreads[t].pc = "write"
        /\ buckets' = [buckets EXCEPT ![k] = out.bucket]
        /\ cAdmitted' = IF out.result.allowed THEN [cAdmitted EXCEPT ![k] = @ + 1]
                        ELSE cAdmitted
        /\ cThreads' = [cThreads EXCEPT ![t].pc = "return", ![t].local = NoBucket,
                                        ![t].result = <<out.result>>]
        /\ UNCHANGED <<now, defaultConfig, keyConfigs, lastResult, allowedLog, nchecks>>
        /\ UNCHANGED <<shardGuard, bucketGuard, cCreated>>
        /\ UNCHANGED concFrame

\* check_with_cost returns: the Mutex guard and the entry guard are dropped
ConcReturn(t) ==
    LET k == cThreads[t].key
    IN  /\ cThreads[t].pc = "return"
        /\ bucketGuard' = [bucketGuard EXCEPT ![k] = IF @ = t THEN NoThread ELSE @]
        /\ shardGuard' = [shardGuard EXCEPT ![k] = IF @ = t THEN NoThread ELSE @]
        /\ cThreads' = [cThreads EXCEPT ![t].pc = "idle"]
        /\ UNCHANGED rateVars
        /\ UNCHANGED <<cCreated, cAdmitted>>
        /\ UNCHANGED concFrame

\* RateLimiter::new(config) shared by the threads; the clock stands still
ConcInit ==
    /\ MainInit
    /\ RouterIdle
    /\ HandlerIdle
    /\ SupIdle
    /\ JwtIdle
    /\ WafIdle
    /\ TopicIdle
    /\ SoapIdle
    /\ ReloadIdle
    /\ MeterIdle
    /\ BridgeIdle
    /\ ConcIdle
    /\ now = 0
    /\ defaultConfig \in ConcConfigs
    /\ keyConfigs = [k \in RateKeys |-> NoConfig]
    /\ buckets = [k \in RateKeys |-> NoBucket]
    /\ lastResult = <<>>
    /\ allowedLog = [k \in RateKeys |-> <<>>]
    /\ nchecks = 0

ConcNext ==
    \/ \E t \in Threads : ConcCall(t)
    \/ \E t \in Threads : ConcEntry(t)
    \/ \E t \in Threads : ConcLock(t)
    \/ \E t \in Threads : ConcRead(t)
    \/ \E t \in Threads : ConcWrite(t)
    \/ \E t \in Threads : ConcReturn(t)

ConcSpec == ConcInit /\ [][ConcNext]_vars

\* --------------------------------------------------------------- metering
meterFrame == <<mainVars, routerVars, handlerVars, supVars, rateVars, jwtVars, wafVars,
                topicVars, soapVars, reloadVars, concVars, bridgeVars>>

\* Meter::record
MeterRecord ==
    /\ mSenders > 0
    /\ mRecords < MaxEvents
    /\ mRecords' = mRecords + 1
    /\ \E ev \in UsageEvents : mChan' = TrySend(mChan, mChanSize, ev)
    /\ UNCHANGED <<mChanSize, mBatchSize, mSenders, mBatch, mTotal, mFlushed, meterPc>>
    /\ UNCHANGED meterFrame

\* Meter::clone
MeterClone ==
    /\ mSenders > 0
    /\ mSenders < MaxMeters
    /\ mSenders' = mSenders + 1
    /\ UNCHANGED <<mChan, mChanSize, mBatchSize, mBatch, mTotal, mFlushed, meterPc, mRecords>>
    /\ UNCHANGED meterFrame

\* drop(meter)
MeterDrop ==
    /\ mSenders > 0
    /\ mSenders' = mSenders - 1
    /\ UNCHANGED <<mChan, mChanSize, mBatchSize, mBatch, mTotal, mFlushed, meterPc, mRecords>>
    /\ UNCHANGED meterFrame

\* one turn of the loop of MeterCollector::run: the select! takes a branch
\* that is ready, or its else branch, which breaks out of the loop, makes the
\* final flush and returns.  The result of flush_fn is only logged.
CollectorSelect ==
    /\ meterPc = "select"
    /\ \E br \in ReadyBranches(mChan, mSenders) :
        LET r == IF br = "recv"
                 THEN AfterRecv(mBatch, mFlushed, mBatchSize, Head(mChan))
                 ELSE FlushNonEmpty(mBatch, mFlushed)
        IN  /\ mBatch' = r.batch
            /\ mFlushed' = r.flushed
            /\ mChan' = IF br = "recv" THEN Tail(mChan) ELSE mChan
            /\ mTotal' = IF br = "recv" THEN mTotal + 1 ELSE mTotal
            /\ meterPc' = IF br = "else" THEN "stopped" ELSE "select"
    /\ UNCHANGED <<mChanSize, mBatchSize, mSenders, mRecords>>
    /\ UNCHANGED meterFrame

\* MeterCollector::new(config), the collector spawned on run
MeterInit ==
    /\ MainInit
    /\ RouterIdle
    /\ HandlerIdle
    /\ SupIdle
    /\ RateIdle
    /\ JwtIdle
    /\ WafIdle
    /\ TopicIdle
    /\ SoapIdle
    /\ ReloadIdle
    /\ ConcIdle
    /\ BridgeIdle
    /\ mChan = <<>>
    /\ mChanSize \in {1, 2}
    /\ mBatchSize \in {1, 2, 3}
    /\ mSenders = 1
    /\ mBatch = <<>>
    /\ mTotal = 0
    /\ mFlushed = <<>>
    /\ meterPc = "select"
    /\ mRecords = 0

MeterNext ==
    \/ MeterRecord
    \/ MeterClone
    \/ MeterDrop
    \/ CollectorSelect

\* the runtime keeps polling the spawned collector
MeterFairSpec == MeterInit /\ [][MeterNext]_vars /\ WF_vars(CollectorSelect)

\* ------------------------------------------------------------- mqtt bridge
bridgeFrame == <<mainVars, routerVars, handlerVars, supVars, rateVars, jwtVars, wafVars,
                 topicVars, soapVars, reloadVars, concVars, meterVars>>

BridgeRoutes == <<MkTopicRoute(<<"s">>, <<"d">>)>>

IncomingTopics == {<<"s">>, <<"a">>}

\* cancel.cancel()
BridgeCancel ==
    /\ ~bridgeCancel
    /\ bridgeCancel' = TRUE
    /\ UNCHANGED <<bridgePc, bridgeCtx, loopPc, loopMsg, messageCh, toGatewayCh, toMqttCh,
                   gatewayRx, nIncoming, nOutbound>>
    /\ UNCHANGED bridgeFrame

\* the branches the select! of MqttBridge::run can take
BridgeReady ==
    {br \in {"cancel", "msg", "ctx"} :
        \/ br = "cancel" /\ bridgeCancel
        \/ br = "msg" /\ messageCh # <<>>
        \/ br = "ctx" /\ toMqttCh # <<>>}

\* one turn of the loop of MqttBridge::run, up to the next await that does
\* not complete at once
BridgeSelect ==
    /\ bridgePc = "select"
    /\ \E br \in BridgeReady :
        LET route == IF br = "msg" THEN FindRoute(BridgeRoutes, Head(messageCh)) ELSE <<>>
            ctx == IF route # <<>> THEN <<route[1].target_destination>> ELSE <<>>
            sent == ctx # <<>> /\ SendCompletes(toGatewayCh, gatewayRx)
        IN  /\ bridgePc' = IF br = "cancel" THEN "returned"
                           ELSE IF ctx # <<>> /\ ~sent THEN "sending"
                           ELSE "select"
            /\ bridgeCtx' = IF ctx # <<>> /\ ~sent THEN ctx ELSE <<>>
            /\ messageCh' = IF br = "msg" THEN Tail(messageCh) ELSE messageCh
            /\ toMqttCh' = IF br = "ctx" THEN Tail(toMqttCh) ELSE toMqttCh
            /\ toGatewayCh' = IF sent THEN AfterSend(toGatewayCh, gatewayRx, ctx[1])
                              ELSE toGatewayCh
    /\ UNCHANGED <<bridgeCancel, loopPc, loopMsg, gatewayRx, nIncoming, nOutbound>>
    /\ UNCHANGED bridgeFrame

\* handle_mqtt_message: self.outbound_tx.send(ctx).await completes
BridgeSendDone ==
    /\ bridgePc = "sending"
    /\ SendCompletes(toGatewayCh, gatewayRx)
    /\ toGatewayCh' = AfterSend(toGatewayCh, gatewayRx, bridgeCtx[1])
    /\ bridgeCtx' = <<>>
    /\ bridgePc' = "select"
    /\ UNCHANGED <<bridgeCancel, loopPc, loopMsg, messageCh, toMqttCh, gatewayRx,
                   nIncoming, nOutbound>>
    /\ UNCHANGED bridgeFrame

\* the branches the select! of the event loop task can take; eventloop.poll()
\* yields a publish, another packet or an error
LoopReady ==
    {br \in {"cancel", "publish", "other", "error"} :
        \/ br = "cancel" /\ bridgeCancel
        \/ br = "publish" /\ nIncoming < MaxIncoming
        \/ br \in {"other", "error"}}

\* one turn of the loop of the event loop task
LoopSelect ==
    /\ loopPc = "select"
    /\ \E br \in LoopReady, topic \in IncomingTopics :
        LET rx == MessageRxAlive(bridgePc)
            sent == br = "publish" /\ SendCompletes(messageCh, rx)
        IN  /\ loopPc' = IF br = "cancel" THEN "exited"
                         ELSE IF br = "error" THEN "sleeping"
                         ELSE IF br = "other" THEN "select"
                         ELSE IF ~sent THEN "sending"
                         ELSE IF rx THEN "select"
                         ELSE "exited"
            /\ loopMsg' = IF br = "publish" /\ ~sent THEN <<topic>> ELSE <<>>
            /\ messageCh' = IF sent THEN AfterSend(messageCh, rx, topic) ELSE messageCh
            /\ nIncoming' = IF br = "publish" THEN nIncoming + 1 ELSE nIncoming
    /\ UNCHANGED <<bridgeCancel, bridgePc, bridgeCtx, toGatewayCh, toMqttCh, gatewayRx,
                   nOutbound>>
    /\ UNCHANGED bridgeFrame

\* event loop task: message_tx.send(msg).await completes
LoopSendDone ==
    /\ loopPc = "sending"
    /\ SendCompletes(messageCh, MessageRxAlive(bridgePc))
    /\ messageCh' = AfterSend(messageCh, MessageRxAlive(bridgePc), loopMsg[1])
    /\ loopMsg' = <<>>
    /\ loopPc' = IF MessageRxAlive(bridgePc) THEN "select" ELSE "exited"
    /\ UNCHANGED <<bridgeCancel, bridgePc, bridgeCtx, toGatewayCh, toMqttCh, gatewayRx,
                   nIncoming, nOutbound>>
    /\ UNCHANGED bridgeFrame

\* event loop task: the sleep after a connection error ends
LoopWake ==
    /\ loopPc = "sleeping"
    /\ loopPc' = "select"
    /\ UNCHANGED <<bridgeCancel, bridgePc, bridgeCtx, loopMsg, messageCh, toGatewayCh,
                   toMqttCh, gatewayRx, nIncoming, nOutbound>>
    /\ UNCHANGED bridgeFrame

\* the holder of the returned receiver takes a context
GatewayRecv ==
    /\ gatewayRx
    /\ toGatewayCh # <<>>
    /\ toGatewayCh' = Tail(toGatewayCh)
    /\ UNCHANGED <<bridgeCancel, bridgePc, bridgeCtx, loopPc, loopMsg, messageCh, toMqttCh,
                   gatewayRx, nIncoming, nOutbound>>
    /\ UNCHANGED bridgeFrame

\* the holder of the returned receiver drops it
GatewayDrop ==
    /\ gatewayRx
    /\ gatewayRx' = FALSE
    /\ toGatewayCh' = <<>>
    /\ UNCHANGED <<bridgeCancel, bridgePc, bridgeCtx, loopPc, loopMsg, messageCh, toMqttCh,
                   nIncoming, nOutbound>>
    /\ UNCHANGED bridgeFrame

\* the holder of the returned sender sends a context towards MQTT
GatewaySend ==
    /\ nOutbound < MaxOutbound
    /\ Len(toMqttCh) < MaxQueued
    /\ bridgePc # "returned"
    /\ nOutbound' = nOutbound + 1
    /\ toMqttCh' = Append(toMqttCh, <<"d">>)
    /\ UNCHANGED <<bridgeCancel, bridgePc, bridgeCtx, loopPc, loopMsg, messageCh, toGatewayCh,
                   gatewayRx, nIncoming>>
    /\ UNCHANGED bridgeFrame

\* MqttBridge::new, start and run called; the event loop task spawned
BridgeInit ==
    /\ MainInit
    /\ RouterIdle
    /\ HandlerIdle
    /\ SupIdle
    /\ RateIdle
    /\ JwtIdle
    /\ WafIdle
    /\ TopicIdle
    /\ SoapIdle
    /\ ReloadIdle
    /\ ConcIdle
    /\ MeterIdle
    /\ bridgeCancel = FALSE
    /\ bridgePc = "select"
    /\ bridgeCtx = <<>>
    /\ loopPc = "select"
    /\ loopMsg = <<>>
    /\ messageCh = <<>>
    /\ toGatewayCh = <<>>
    /\ toMqttCh = <<>>
    /\ gatewayRx = TRUE
    /\ nIncoming = 0
    /\ nOutbound = 0

BridgeNext ==
    \/ BridgeCancel
    \/ BridgeSelect
    \/ BridgeSendDone
    \/ LoopSelect
    \/ LoopSendDone
    \/ LoopWake
    \/ GatewayRecv
    \/ GatewayDrop
    \/ GatewaySend

\* select! polls its branches in random order: a cancellation branch that
\* is ready at every turn is taken at some turn
BridgeTakesCancel == BridgeSelect /\ bridgeCancel /\ bridgePc' = "returned"

LoopTakesCancel == LoopSelect /\ bridgeCancel /\ loopPc' = "exited"

\* the runtime keeps polling the bridge and the event loop task; nothing
\* obliges the holder of the receiver to receive
BridgeFairSpec ==
    /\ BridgeInit
    /\ [][BridgeNext]_vars
    /\ WF_vars(BridgeSelect) /\ WF_vars(BridgeSendDone)
    /\ WF_vars(LoopSelect) /\ WF_vars(LoopSendDone) /\ WF_vars(LoopWake)
    /\ SF_vars(BridgeTakesCancel) /\ SF_vars(LoopTakesCancel)

\* ----------------------------------------------------------- properties
IsWildcard(p) == EndsWith(p, <<"/", "*">>)

IsPrefixPattern(p) == EndsWith(p, S_slash)

\* the text of a pattern before its last k characters
DropLast(p, k) == SubSeq(p, 1, Len(p) - k)

\* a pattern with every trailing slash removed, stated without recursion
WithoutTrailingSlashes(p) ==
    LET keep == {i \in 0..Len(p) : i = 0 \/ p[i] # "/"}
        k == CHOOSE i \in keep : \A j \in keep : j <= i
    IN  SubSeq(p, 1, k)

\* x is q followed by a '/'-separated, non-empty suffix
Extends(x, q) ==
    /\ StartsWith(x, q \o S_slash)
    /\ Len(x) > Len(q) + 1

\* the step in which a reload publishes its table
WatcherPublishes ==
    /\ wpc \in {"init_fetched", "fetched"}
    /\ wpc' \notin {"init_fetched", "fetched"}

ForcePublishes ==
    /\ fpc = "fetched"
    /\ fpc' = "idle"

TableClean(t) ==
    \A p \in DOMAIN t.map : t.map[p].active /\ ValidateRoute(t.map[p])

\* C1: every table a reader can load -- the published one and the snapshot a
\* handler holds -- contains only routes that are active and pass
\* validate_route, whatever the interleaving of writes, reloads and requests.
C1_TablesClean ==
    /\ TableClean(config)
    /\ TableClean(rsnap)

\* C1 witness: a handler holds a non-empty table loaded after a reload of a
\* store that contains an inactive route.
C1_Witness ==
    /\ rpc = "loaded"
    /\ rsnap.map # EmptyMap
    /\ rsnap = config
    /\ pubVer = ver
    /\ \E id \in StoreIds : store[id] # NoRoute /\ ~store[id].active

\* C2: a handler takes its snapshot from the pointer in one load, keeps it
\* unchanged while reloads publish, and computes route match and method gate
\* from that snapshot alone, so the response is the one a single complete
\* table gives.
C2_SnapshotAtomic ==
    [][ /\ (rpc = "idle" /\ rpc' = "loaded") => rsnap' = config
        /\ (rpc = "loaded" /\ rpc' = "loaded") => rsnap' = rsnap
        /\ (rpc = "loaded" /\ rpc' = "idle") =>
               rresp' = HandleOutcome(rpath, rmethod, rsnap, rsnap) ]_vars

\* C2 witness: a reload has published while a request is in flight, and the
\* old and the new table answer that request differently.
C2_Witness ==
    /\ rpc = "loaded"
    /\ rsnap.map # config.map
    /\ rsnap.map # EmptyMap
    /\ HandleOutcome(rpath, rmethod, rsnap, rsnap)
         # HandleOutcome(rpath, rmethod, config, config)

\* C3: every committed change is eventually reflected in the published
\* table.  Stated as its finite consequence: once the watcher is blocked on
\* the stream with no item pending and no reload in flight, nothing will
\* publish again unless the store changes, so the published table must
\* already equal build_router_map of the store.
C3_ChangesReachTable ==
    (wpc = "wait" /\ queue = 0 /\ fpc = "idle")
        => config.map = BuildRouterMap(GetAllRoutes(store))

\* C4: when a reload publishes, every active route it fetched from the store
\* is what match_route returns for that route's own path.
C4_StoredRouteMatches ==
    [][ /\ WatcherPublishes =>
              \A i \in DOMAIN wroutes : wroutes[i].active =>
                  MatchRoute(wroutes[i].path, config'.map, config'.order) = wroutes[i]
        /\ ForcePublishes =>
              \A i \in DOMAIN froutes : froutes[i].active =>
                  MatchRoute(froutes[i].path, config'.map, config'.order) = froutes[i] ]_vars

\* C5: when the request path is a key of the table, match_route returns the
\* route stored under that key, whatever other patterns match.
C5_ExactPriority ==
    (mpc = "done" /\ mpath \in DOMAIN mtable.map)
        => /\ mresult = mtable.map[mpath]
           /\ mresult2 = mtable.map[mpath]

\* C5 witness: the path is a key and a longer pattern matches it as well.
C5_Witness ==
    /\ mpc = "done"
    /\ mpath \in DOMAIN mtable.map
    /\ \E q \in mhits : Len(q) > Len(mpath)

\* C6 as stated: a wildcard P/* matches every path that extends P by a
\* '/'-separated suffix and does not match the bare P; with the table
\* {/api/users, /api/*}, /api/users gives U, /api/orders/1 gives C and /api
\* gives None.
C6_WildcardExcludesBare ==
    mpc = "done" =>
        /\ \A p \in DOMAIN mtable.map : IsWildcard(p) =>
              /\ Extends(mpath, DropLast(p, 2)) => p \in mhits
              /\ mpath = DropLast(p, 2) => p \notin mhits
        /\ DOMAIN mtable.map = {S_apiUsers, S_apiW} =>
              /\ mpath = S_apiUsers => mresult = mtable.map[S_apiUsers]
              /\ mpath = S_apiOrders1 => mresult = mtable.map[S_apiW]
              /\ mpath = S_api => mresult = NoRoute

\* C6 amended: a wildcard P/* matches every path that extends P by a
\* '/'-separated suffix and also the bare P; with the table
\* {/api/users, /api/*}, /api/users gives U and both /api/orders/1 and /api
\* give C.
C6_WildcardIncludesBare ==
    mpc = "done" =>
        /\ \A p \in DOMAIN mtable.map : IsWildcard(p) =>
              /\ Extends(mpath, DropLast(p, 2)) => p \in mhits
              /\ mpath = DropLast(p, 2) => p \in mhits
        /\ DOMAIN mtable.map = {S_apiUsers, S_apiW} =>
              /\ mpath = S_apiUsers => mresult = mtable.map[S_apiUsers]
              /\ mpath = S_apiOrders1 => mresult = mtable.map[S_apiW]
              /\ mpath = S_api => mresult = mtable.map[S_apiW]

\* C6 witness: the scenario table has been asked for the bare /api.
C6_Witness ==
    /\ mpc = "done"
    /\ DOMAIN mtable.map = {S_apiUsers, S_apiW}
    /\ mpath = S_api
    /\ mresult # NoRoute

C8_LongestMatch ==
    (mpc = "done" /\ mpath \notin DOMAIN mtable.map) =>
        \A r \in {mresult, mresult2} :
            /\ r = NoRoute <=> mhits = {}
            /\ r # NoRoute =>
                  \E p \in mhits : /\ mtable.map[p] = r
                                   /\ \A q \in mhits : Len(q) <= Len(p)

\* C8 witness: two patterns of different length match a path that is no key.
C8_Witness ==
    /\ mpc = "done"
    /\ mpath \notin DOMAIN mtable.map
    /\ \E p, q \in mhits : Len(p) < Len(q)
    /\ mresult # NoRoute

\* C9: two tables with the same entries give the same route for the same
\* path, whatever their iteration orders.
C9_Deterministic ==
    mpc = "done" => mresult = mresult2

\* C10: a reload that publishes from the store version the currently
\* published table was fetched at leaves the map as it is.
C10_ReloadIdempotent ==
    [][ /\ (WatcherPublishes /\ wver = pubVer) => config'.map = config.map
        /\ (ForcePublishes /\ fver = pubVer) => config'.map = config.map ]_vars

\* C10 witness: two reloads in succession, with writes before them and none
\* in between, have published a non-empty table.
C10_Witness ==
    /\ prevVer = pubVer
    /\ pubVer >= 1
    /\ config.map # EmptyMap

\* C11: handle_request answers 404 exactly when no pattern of the table
\* matches the path, 405 exactly when the matched route has a non-empty
\* method set that does not contain the request method up to ASCII case,
\* and otherwise answers as routed to the matched route's upstream
MethodListed(route, method) ==
    \E i \in DOMAIN route.methods :
        /\ Len(route.methods[i]) = Len(method)
        /\ [k \in DOMAIN method |-> ToAsciiLower(method[k])]
             = [k \in DOMAIN method |-> ToAsciiLower(route.methods[i][k])]

C11_NotFoundMethodGate ==
    hpc = "done" =>
        LET hits == {p \in DOMAIN htable.map : PathMatches(hpath, p)}
            route == MatchRoute(hpath, htable.map, htable.order)
        IN  /\ hresp.status \in {404, 405, 200}
            /\ (hresp.status = 404) <=> (hits = {})
            /\ (hresp.status = 405) <=>
                  (hits # {} /\ route.methods # <<>> /\ ~MethodListed(route, hmethod))
            /\ (hresp.status = 200) => (hresp.upstream = route.upstream)
            /\ (hits # {} /\ route.methods = <<>>) => (hresp.status = 200)

\* a request "get" is routed through a route that lists "GET"
C11_Witness ==
    /\ hpc = "done"
    /\ hmethod = M_get
    /\ hresp.status = 200
    /\ MatchRoute(hpath, htable.map, htable.order).methods = <<M_GET>>

\* C12: a request that the WAF blocks, that is rate-limited or that carries
\* an invalid token is ended with a client error by the security gate: it
\* is never matched against the router table nor answered as routed
C12_GateBeforeRouter ==
    (hpc = "done" /\ hgate # "pass") => hresp.status \notin {200, 404, 405}

\* both loops of reconcile are done: the state in which reconcile returns
ReconcileDone == lpc = "apply" /\ lqueue = <<>>

\* the shutdown loop is done: the state in which shutdown returns
ShutdownDone == lpc = "shutdown" /\ lqueue = <<>>

EventIndexes(e) == {i \in DOMAIN events : events[i] = e}

\* C13: when reconcile returns, is_running(id) holds exactly for the ids
\* that the config it loaded lists as enabled, and every running listener
\* stores that config's spec for its id
C13_ReconcileConverges ==
    ReconcileDone =>
        \A id \in SupIds :
            /\ IsRunning(listeners, id)
                  <=> (lconfig[id] # NoListener /\ lconfig[id].enabled)
            /\ IsRunning(listeners, id) => listeners[id].config = lconfig[id]

\* a second reconcile that restarted L1 with a changed spec and stopped L2
C13_Witness ==
    /\ ReconcileDone
    /\ lbefore[L1] # NoHandle
    /\ IsRunning(listeners, L1)
    /\ listeners[L1].config # lbefore[L1].config
    /\ lbefore[L2] # NoHandle
    /\ ~IsRunning(listeners, L2)

ScenarioRestart ==
    /\ ReconcileDone
    /\ lbefore[L1] # NoHandle
    /\ lbefore[L1].config.port = 8080
    /\ lbefore[L2] = NoHandle
    /\ lconfig[L1] = MkListener(L1, "http", 8081, TRUE, DefaultDrainTimeout)
    /\ lconfig[L2] = MkListener(L2, "mqtt", 1883, TRUE, DefaultDrainTimeout)

\* C14: reconciling from {L1 on 8080} to {L1 on 8081, L2 on 1883} publishes
\* Restarted(L1) and Started(L2), Restarted(L1) after Stopped(L1) and
\* Started(L1) in that order, and no Stopped event other than that one
C14_RestartEvents ==
    ScenarioRestart =>
        /\ EventIndexes(Restarted(L1)) # {}
        /\ EventIndexes(Started(lconfig[L2])) # {}
        /\ \A r \in EventIndexes(Restarted(L1)) :
              \E i \in EventIndexes(Stopped(L1)), j \in EventIndexes(Started(lconfig[L1])) :
                  i < j /\ j < r
        /\ Cardinality({i \in DOMAIN events : events[i].kind = "Stopped"}) = 1
        /\ Cardinality(EventIndexes(Stopped(L1))) = 1
        /\ listeners[L1].config.port = 8081
        /\ IsRunning(listeners, L2)

C14_Witness ==
    /\ ScenarioRestart
    /\ Len(events) = 4

\* tasks spawned for a listener id that have not returned
AliveTasks(id) ==
    detached[id]
    + (IF listeners[id] # NoHandle /\ listeners[id].task # "exited" THEN 1 ELSE 0)

\* C15: once stop_listener(id) has sent Stopped(id) the task it stopped is
\* no longer alive, so at most one task per listener id is alive
C15_StoppedTaskGone ==
    \A id \in SupIds :
        /\ detached[id] = 0
        /\ AliveTasks(id) <= 1

\* C16: a listener whose task had ended when reconcile was called, and
\* which the loaded config still lists as enabled, is started again by
\* that reconcile
C16_EndedTaskRestarted ==
    ReconcileDone =>
        \A id \in Expected(lconfig) :
            (lbefore[id] # NoHandle /\ lbefore[id].task = "exited")
                => EventIndexes(Started(lconfig[id])) # {}

\* C17: shutdown cancels the master token and with it every listener's
\* token; it returns; when it returns no listener is left in the map and
\* exactly one Stopped event was sent for each listener it found
C17_ShutdownStopsAll ==
    /\ [](lpc = "shutdown" =>
            /\ masterCancelled
            /\ \A id \in SupIds :
                  IsRunning(listeners, id) => listeners[id].task # "running")
    /\ [](ShutdownDone =>
            /\ ListenerCount(listeners) = 0
            /\ \A id \in SupIds :
                  Cardinality(EventIndexes(Stopped(id)))
                      = (IF lbefore[id] # NoHandle THEN 1 ELSE 0)
            /\ \A i \in DOMAIN events : events[i].kind = "Stopped")
    /\ (lpc = "shutdown" ~> lpc = "idle")

\* shutdown has stopped two listeners
C17_Witness ==
    /\ ShutdownDone
    /\ Len(events) = 2
    /\ lbefore[L1] # NoHandle
    /\ lbefore[L2] # NoHandle

\* C18: on a key without a bucket, with config (R, B) and no time passing,
\* the checks made so far were allowed up to the (R + B)-th and denied
\* from then on, and a denied check carries a retry_after_ms above 0
C18_BurstAllowance ==
    LET cfg == ConfigFor(K1)
        cap == cfg.requests_per_window + cfg.burst_size
    IN  /\ Len(allowedLog[K1]) = (IF nchecks < cap THEN nchecks ELSE cap)
        /\ nchecks > 0 =>
              /\ Len(lastResult) = 1
              /\ lastResult[1].allowed <=> (nchecks <= cap)
              /\ ~lastResult[1].allowed =>
                    /\ Len(lastResult[1].retry_after_ms) = 1
                    /\ lastResult[1].retry_after_ms[1] > 0

\* R = 5, B = 3: eight checks were allowed and the ninth is denied
C18_Witness ==
    /\ ConfigFor(K1) = MkRateConfig(5, 60, 3)
    /\ nchecks = 9
    /\ Len(allowedLog[K1]) = 8
    /\ ~lastResult[1].allowed
    /\ lastResult[1].retry_after_ms[1] > 0

\* C19: for every key, the number of allowed checks in an interval of
\* length d is at most ceil(r * d) + c, with r and c the rate and capacity
\* of the key's config.  Times are whole seconds: allowed checks logged at
\* s <= t lie in an interval shorter than t - s + 1 seconds
C19_BucketBound ==
    \A k \in RateKeys :
        LET cfg == ConfigFor(k)
            log == allowedLog[k]
        IN  \A i \in DOMAIN log : \A j \in DOMAIN log :
                i <= j =>
                    (j - i + 1) <=
                        CeilDiv(cfg.requests_per_window * (log[j] - log[i] + 1),
                                cfg.window_secs)
                        + cfg.requests_per_window + cfg.burst_size

\* C20: every check(k) is decided by a bucket that carries the key's
\* override when one has been set, before or after the key's first check,
\* and the default config otherwise
C20_OverrideApplies ==
    [][\A k \in RateKeys :
          (nchecks < MaxChecks /\ CheckKey(k)) =>
              /\ buckets'[k].config = ConfigFor(k)
              /\ lastResult'[1].limit = ConfigFor(k).requests_per_window]_vars

\* C21: with validation enabled, validate returns Ok(claims) only at times
\* not later than claims.exp, on cache hits as well as on cache misses
C21_NoExpiredServed ==
    (jwtConfig # NoAuthConfig /\ jwtConfig.enabled /\ jwtResult # <<>>
        /\ jwtResult[1].kind = "Ok")
    => jwtResult[1].at <= jwtResult[1].claims.exp

\* some rule of some group, built in or custom, matches the content
AnyRuleMatches(cfg, content) ==
    \/ \E g \in {SqlPatterns, XssPatterns, PathPatterns, CmdPatterns} :
        \E k \in DOMAIN g : IsMatch(g[k], content)
    \/ \E k \in DOMAIN cfg.custom_patterns : IsMatch(cfg.custom_patterns[k].pattern, content)

Scanned == wafResult # <<>> /\ ~wafResult[1].panic

\* C22: scan reports no rule and allows when the scanned prefix matches no
\* rule; reports rule id and category when it matches one, blocking in Block
\* mode and allowing in DetectOnly mode; a disabled engine allows everything
\* and reports nothing; the SQL injection example is blocked as
\* "SQL Injection" and "Hello, world" is allowed
C22_ScanByMode ==
    Scanned =>
        LET r == wafResult[1]
            c == Content(wafConfig, wafPayload).content
            reported == r.triggered_rule # <<>> /\ r.category # <<>>
            silent == r.triggered_rule = <<>> /\ r.category = <<>>
        IN  /\ ~wafConfig.enabled => r.allowed /\ silent
            /\ (wafConfig.enabled /\ ~AnyRuleMatches(wafConfig, c)) => r.allowed /\ silent
            /\ (wafConfig.enabled /\ AnyRuleMatches(wafConfig, c)) =>
                /\ reported
                /\ wafConfig.mode = "Block" => ~r.allowed
                /\ wafConfig.mode = "DetectOnly" => r.allowed
            /\ (wafConfig.enabled /\ wafConfig.mode = "Block" /\ wafPayload = P_sql
                    /\ c = P_sql) =>
                ~r.allowed /\ r.category = <<"SQL Injection">>
            /\ wafPayload = P_hello => r.allowed

C22_Witness ==
    /\ Scanned
    /\ wafConfig.enabled
    /\ wafConfig.mode = "DetectOnly"
    /\ wafPayload = P_sql
    /\ wafResult[1].allowed
    /\ wafResult[1].category = <<"SQL Injection">>

\* C30: when only the custom group matches the content, the rule id and
\* category scan reports are those of a custom pattern that matches it
C30_CustomRuleReported ==
    LET c == Content(wafConfig, wafPayload).content
        builtin == \E g \in {SqlPatterns, XssPatterns, PathPatterns, CmdPatterns} :
                        SetIsMatch(g, c)
        custom == \E k \in DOMAIN wafConfig.custom_patterns :
                        IsMatch(wafConfig.custom_patterns[k].pattern, c)
    IN  (Scanned /\ wafConfig.enabled /\ ~builtin /\ custom)
        => \E k \in DOMAIN wafConfig.custom_patterns :
            /\ IsMatch(wafConfig.custom_patterns[k].pattern, c)
            /\ wafResult[1].triggered_rule = <<wafConfig.custom_patterns[k].id>>
            /\ wafResult[1].category = <<wafConfig.custom_patterns[k].category>>

\* the levels of a topic or pattern, read off its text
LevelsOf(s) ==
    LET cuts == <<0>> \o SelectSeq([i \in 1..Len(s) |-> IF s[i] = "/" THEN i ELSE 0],
                                    LAMBDA x : x # 0) \o <<Len(s) + 1>>
    IN  [k \in 1..(Len(cuts) - 1) |-> SubSeq(s, cuts[k] + 1, cuts[k + 1] - 1)]

\* '#' occurs in the pattern only as its last level, if at all
HashOnlyTrailing(pl) == \A k \in 1..(Len(pl) - 1) : pl[k] # <<"#">>

\* MQTT matching as the wildcards are defined: '+' stands for exactly one
\* level, a trailing '#' for zero or more remaining levels
LevelsMatch(pl, tl) ==
    IF pl[Len(pl)] = <<"#">>
    THEN /\ Len(tl) >= Len(pl) - 1
         /\ \A k \in 1..(Len(pl) - 1) : pl[k] = <<"+">> \/ pl[k] = tl[k]
    ELSE /\ Len(tl) = Len(pl)
         /\ \A k \in 1..Len(pl) : pl[k] = <<"+">> \/ pl[k] = tl[k]

\* C23: '+' matches exactly one topic level, a trailing '#' matches zero or
\* more remaining levels ("sensors/#" matches "sensors"), and a pattern
\* without wildcards matches only the identical topic
C23_TopicWildcards ==
    (mqResult # <<>> /\ HashOnlyTrailing(LevelsOf(mqPattern)))
    => mqResult[1] = LevelsMatch(LevelsOf(mqPattern), LevelsOf(mqTopic))

\* the Body of the document holds the single operation GetUser / userId = 123
BodyIsGetUser123 ==
    \E pfx \in {<<>>, Pfx_soap}, attrs \in {<<>>, <<XmlnsSoap>>} :
      \E h \in HeaderContents(pfx) :
        soapXml = Element(pfx \o N_Envelope, attrs,
                    h \o Element(pfx \o N_Body, <<>>,
                        Element(N_GetUser, <<>>,
                            Element(N_userId, <<>>, <<EvText(<<"1", "2", "3">>)>>))))

\* the Body of the document has a Fault child, plain or prefixed
BodyHasFault ==
    \E i \in 1..(Len(soapXml) - 1) :
        /\ soapXml[i].k = "Start" /\ ElementName(soapXml[i]) = N_Body
        /\ soapXml[i + 1].k = "Start" /\ ElementName(soapXml[i + 1]) = N_Fault

GetUserJson == <<"{", "\"", "G", "e", "t", "U", "s", "e", "r", "\"", ":", "{", "\"", "u", "s", "e", "r", "I", "d", "\"", ":", "\"", "1", "2", "3", "\"", "}", "}">>

\* C24: an envelope whose Body holds the single operation GetUser/userId=123
\* parses to operation name GetUser, a destination naming GetUser (when no
\* Action header overrides it), body JSON {"GetUser":{"userId":"123"}} and
\* is_fault = false; an envelope whose Body has a Fault child parses to
\* is_fault = true
C24_SoapEnvelope ==
    /\ (soapPc = "done" /\ BodyIsGetUser123) =>
        /\ soapOperation = <<N_GetUser>>
        /\ soapEnvelope[1].action = <<>> => soapContext[1].destination = N_GetUser
        /\ soapContext[1].payload = GetUserJson
        /\ ~soapEnvelope[1].is_fault
    /\ (soapPc # "input" /\ BodyHasFault) =>
        soapEnvelope[1].err = "" /\ soapEnvelope[1].is_fault

\* C25: a reload that fails after a notification leaves the published table
\* as it was and the watcher at the head of its loop, ready for the next
\* notification; an error item from the live stream likewise
C25_FailureKeepsTable ==
    [][(Len(wlog') > Len(wlog) /\ wpc \in {"reload", "wait"})
        => (config' = config /\ pubVer' = pubVer /\ wpc' = "wait")]_vars

\* a reload failed after a notification, and the watcher has since consumed
\* another notification and published a table fetched at a later version
C25_Witness ==
    /\ \E i \in DOMAIN wlog : wlog[i].line = "reload_failed" /\ wlog[i].pubVer < pubVer
    /\ wpc = "wait"

\* the listeners reconcile found are exactly the enabled listeners of the
\* config it loaded, each with a spec equal field for field
AlreadyReconciled ==
    \A id \in SupIds :
        /\ IsRunning(lbefore, id) <=> id \in Expected(lconfig)
        /\ IsRunning(lbefore, id) => lbefore[id].config = lconfig[id]

\* C26: a reconcile against a config whose enabled listeners are all running
\* already with equal specs publishes no event, cancels no token, spawns no
\* task and leaves the listener map as it was
C26_ReconcileIdempotent ==
    (ReconcileDone /\ AlreadyReconciled) =>
        /\ events = <<>>
        /\ \A id \in SupIds :
            /\ listeners[id] = NoHandle <=> lbefore[id] = NoHandle
            /\ listeners[id] # NoHandle =>
                /\ listeners[id].config = lbefore[id].config
                /\ lbefore[id].task = "running" => listeners[id].task = "running"

\* a repeated reconcile with both listeners running
C26_Witness ==
    /\ ReconcileDone
    /\ AlreadyReconciled
    /\ IsRunning(lbefore, L1)
    /\ IsRunning(lbefore, L2)
    /\ lops > 1

\* C27: with no time elapsing, the checks of concurrent threads on one key
\* take effect one at a time: the allowed checks never exceed the bucket's
\* capacity, every allowed check is charged to the bucket, and the first
\* checks of a key create exactly one bucket
C27_ChecksLinearizable ==
    \A k \in RateKeys :
        LET cfg == ConfigFor(k)
            cap == cfg.requests_per_window + cfg.burst_size
        IN  /\ cAdmitted[k] <= cap
            /\ cCreated[k] <= 1
            /\ buckets[k] # NoBucket =>
                /\ cCreated[k] = 1
                /\ buckets[k].tokens = MaxTokens(cfg) - cAdmitted[k] * cfg.window_secs
            /\ \A t \in Threads :
                (cThreads[t].key = k /\ cThreads[t].pc \in {"lock", "read", "write", "return"})
                    => buckets[k] # NoBucket

\* both threads are inside check on K1, one waiting at the entry while the
\* other is about to write, after the capacity of two has been used up
C27_Witness ==
    /\ cThreads["T1"].pc = "entry" /\ cThreads["T1"].key = K1
    /\ cThreads["T2"].pc = "write" /\ cThreads["T2"].key = K1
    /\ cAdmitted[K1] = 2
    /\ cCreated[K1] = 1

\* C28: once every Meter handle has been dropped and the channel is drained,
\* MeterCollector::run makes its final flush and returns
C28_CollectorTerminates ==
    (meterPc = "select" /\ mSenders = 0 /\ mChan = <<>>) ~> (meterPc = "stopped")

\* C29: after the cancellation token is cancelled, MqttBridge::run returns
\* and the event loop task exits, whatever the channels hold
C29_CancelStopsBridge ==
    bridgeCancel ~> (bridgePc = "returned" /\ loopPc = "exited")

====
